---- MODULE Spec2Model ----
(***************************************************************************)
(* Bulk migration engine of cdc-connector (src/migrate.py): the per-table  *)
(* pipeline DISCOVER -> PROVISION -> LOAD (sequential or year-chunked) ->  *)
(* FINALIZE run by migrate_database on a table pool, with the sink's       *)
(* transaction behaviour (one psycopg2 connection = one open transaction   *)
(* until commit() or rollback()).                                          *)
(*                                                                         *)
(* A source row is identified by its position in the table's scan order    *)
(* (the source is static and LIMIT/OFFSET reads it in a stable order); the *)
(* value kept for a row is the calendar year of its chunking column, 0     *)
(* standing for SQL NULL.                                                  *)
(***************************************************************************)
EXTENDS Integers, Sequences, FiniteSets, TLC

VARIABLES
    tables,   \* table_filter: the requested tables (migrate_database)
    src,      \* the source catalogue: per table, existence, layout and rows
    sink,     \* the sink: per table, the table's definition and its rows
    ddl,      \* per table, the DDL statements attempted on the sink, in order
    pc,       \* per table, the phase of its migrate_table task
    load,     \* per table, what migrate_table_data has done and returned
    chunk,    \* per table, its year-chunk tasks (migrate_year_chunk)
    fin,      \* per table, what FINALIZE met
    provret,  \* per table, the value create_table returned
    db,       \* migrate_database / main: pool bookkeeping and exit code
    call,     \* one call of a pure function: its arguments and what it returned
    conns,    \* every source and sink connection opened so far
    bf        \* backfill.py: one process_table call on one sink table

vars == <<tables, src, sink, ddl, pc, load, chunk, fin, provret, db, call, conns, bf>>

---------------------------------------------------------------------------
\* Bounds of the model.

\* rows of a source table
MaxRows == 3
\* statements of one FINALIZE that the sink refuses on their own account
MaxRejects == 1
\* calls of create_table on one sink table (SpecProv)
MaxCalls == 2
MaxTotal == 5

\* Tuning parameters of the program, scaled down (all four are overridable
\* from the environment and the command line).
BATCH_SIZE == 2
MAX_WORKERS == 2
LARGE_TABLE_THRESHOLD == 2
CHUNK_WORKERS == 2

\* --tables: the names a request may list
TableNames == {"T_DEAL", "T_LOG"}

\* calendar years a chunking column may hold (with a year between them that
\* no row falls in); 0 is SQL NULL
Years == {2020, 2022}
YearVals == {0} \cup Years

---------------------------------------------------------------------------
\* Strings (Python str): lower(), substring test, ordering.

UpperChars == "ABCDEFGHIJKLMNOPQRSTUVWXYZ"
LowerChars == "abcdefghijklmnopqrstuvwxyz"
\* code-point order of the characters that occur in identifiers
CodePoints == "()0123456789ABCDEFGHIJKLMNOPQRSTUVWXYZ_abcdefghijklmnopqrstuvwxyz"

CharAt(s, i) == SubSeq(s, i, i)

LowerChar(c) ==
    IF \E i \in 1..Len(UpperChars) : CharAt(UpperChars, i) = c
    THEN CharAt(LowerChars, CHOOSE i \in 1..Len(UpperChars) : CharAt(UpperChars, i) = c)
    ELSE c

RECURSIVE StrLower(_)
StrLower(s) ==
    IF Len(s) = 0 THEN "" ELSE LowerChar(CharAt(s, 1)) \o StrLower(SubSeq(s, 2, Len(s)))

\* Python's `sub in s`
StrContains(s, sub) ==
    \E i \in 1..(Len(s) - Len(sub) + 1) : SubSeq(s, i, i + Len(sub) - 1) = sub

Ord(c) == CHOOSE i \in 1..Len(CodePoints) : CharAt(CodePoints, i) = c

\* Python's s < t on str
RECURSIVE StrLess(_, _)
StrLess(s, t) ==
    IF Len(t) = 0 THEN FALSE
    ELSE IF Len(s) = 0 THEN TRUE
    ELSE IF CharAt(s, 1) = CharAt(t, 1)
         THEN StrLess(SubSeq(s, 2, Len(s)), SubSeq(t, 2, Len(t)))
         ELSE Ord(CharAt(s, 1)) < Ord(CharAt(t, 1))

\* f'"{name}"'
Quoted(s) == "\"" \o s \o "\""

\* [f(x) for x in seq if p(x)] helpers
RECURSIVE SelectIdx(_, _, _)
SelectIdx(seq, keep, i) ==
    IF i > Len(seq) THEN <<>>
    ELSE (IF i \in keep THEN <<seq[i]>> ELSE <<>>) \o SelectIdx(seq, keep, i + 1)

---------------------------------------------------------------------------
\* TypeMapper.

TYPE_MAP ==
    << <<"tinyint(1)", "boolean">>, <<"bit(1)", "boolean">>, <<"tinyint", "smallint">>,
       <<"smallint", "smallint">>, <<"mediumint", "integer">>, <<"int", "integer">>,
       <<"bigint", "bigint">>, <<"decimal", "numeric">>, <<"float", "real">>,
       <<"double", "double precision">>, <<"date", "date">>, <<"datetime", "timestamp">>,
       <<"timestamp", "timestamptz">>, <<"time", "time">>, <<"char", "varchar">>,
       <<"varchar", "varchar">>, <<"text", "text">>, <<"mediumtext", "text">>,
       <<"longtext", "text">>, <<"binary", "bytea">>, <<"varbinary", "bytea">>,
       <<"blob", "bytea">>, <<"mediumblob", "bytea">>, <<"longblob", "bytea">>,
       <<"enum", "varchar">> >>

\* a lookup that does not see the table's last entry
TypeMapLookupShort(key) ==
    IF \E i \in 1..(Len(TYPE_MAP) - 1) : TYPE_MAP[i][1] = key
    THEN [found |-> TRUE,
          value |-> TYPE_MAP[CHOOSE i \in 1..(Len(TYPE_MAP) - 1) : TYPE_MAP[i][1] = key][2]]
    ELSE [found |-> FALSE, value |-> ""]

\* the dict lookup: is key in TYPE_MAP, and TYPE_MAP[key] if it is
TypeMapLookup(key) ==
    IF \E i \in 1..Len(TYPE_MAP) : TYPE_MAP[i][1] = key
    THEN [found |-> TRUE, value |-> TYPE_MAP[CHOOSE i \in 1..Len(TYPE_MAP) : TYPE_MAP[i][1] = key][2]]
    ELSE [found |-> FALSE, value |-> ""]

\* TYPE_MAP.get(key, default)
TypeMapGet(key, default) ==
    IF TypeMapLookup(key).found THEN TypeMapLookup(key).value ELSE default

\* which of TYPE_MAP.get's two outcomes a lookup of key is
TypeMapRoute(key) == IF TypeMapLookup(key).found THEN "table" ELSE "fallback"

\* s.index(c): position of the first c in s, 0 when there is none
StrIndex(s, c) ==
    IF \E i \in 1..Len(s) : CharAt(s, i) = c
    THEN CHOOSE i \in 1..Len(s) : CharAt(s, i) = c /\ \A j \in 1..(i - 1) : CharAt(s, j) # c
    ELSE 0

\* s.split('(')[0]
BaseType(s) == IF StrIndex(s, "(") = 0 THEN s ELSE SubSeq(s, 1, StrIndex(s, "(") - 1)

\* convert_mysql_type, with the return statement that produced the result:
\* by is "special" (one of the three special cases), or the outcome of the
\* TYPE_MAP.get the result came from, "table" or "fallback"
ResolveType(column_type) ==
    LET lower == StrLower(column_type)
        base_type == BaseType(lower)
    IN  IF StrContains(lower, "tinyint(1)") THEN [pg_type |-> "boolean", by |-> "special"]
        ELSE IF StrContains(lower, "bit(1)") THEN [pg_type |-> "boolean", by |-> "special"]
        ELSE IF base_type = "int" /\ StrContains(lower, "unsigned")
             THEN [pg_type |-> "bigint", by |-> "special"]
        ELSE IF StrContains(column_type, "(")
                /\ base_type \in {"decimal", "numeric", "varchar", "char"}
             THEN LET precision == SubSeq(column_type, StrIndex(column_type, "("),
                                          StrIndex(column_type, ")"))
                      pg_base == TypeMapGet(base_type, "text")
                  IN  [by |-> TypeMapRoute(base_type),
                       pg_type |-> IF base_type \in {"decimal", "numeric"}
                                   THEN pg_base \o precision
                                   ELSE IF base_type = "varchar" THEN pg_base \o precision
                                   ELSE pg_base]
        ELSE [pg_type |-> TypeMapGet(base_type, "text"), by |-> TypeMapRoute(base_type)]

convert_mysql_type(column_type) == ResolveType(column_type).pg_type

---------------------------------------------------------------------------
\* The source catalogue: what DESCRIBE and SHOW INDEX answer for a layout.

Layouts == {"deal", "log"}

\* the layout of each table of the source database
LayoutOf(t) == IF t = "T_DEAL" THEN "deal" ELSE "log"

\* DESCRIBE <table>: (Field, Type, Null, Key)
Describe(layout) ==
    IF layout = "deal"
    THEN << [Field |-> "ID", Type |-> "bigint(20)", Null |-> "NO", Key |-> "PRI"],
            [Field |-> "CREATED_AT", Type |-> "datetime", Null |-> "YES", Key |-> "MUL"],
            [Field |-> "STATUS", Type |-> "varchar(32)", Null |-> "YES", Key |-> "MUL"],
            [Field |-> "updated", Type |-> "timestamp", Null |-> "YES", Key |-> ""] >>
    ELSE << [Field |-> "line", Type |-> "int(10) unsigned", Null |-> "NO", Key |-> ""],
            [Field |-> "msg", Type |-> "text", Null |-> "YES", Key |-> ""] >>

\* SHOW INDEX FROM <table>: (Non_unique, Key_name, Column_name), by index and ordinal
ShowIndex(layout) ==
    IF layout = "deal"
    THEN << [Non_unique |-> 0, Key_name |-> "PRIMARY", Column_name |-> "ID"],
            [Non_unique |-> 1, Key_name |-> "IDX_STATUS", Column_name |-> "STATUS"],
            [Non_unique |-> 0, Key_name |-> "UQ_CREATED", Column_name |-> "CREATED_AT"],
            [Non_unique |-> 0, Key_name |-> "UQ_CREATED", Column_name |-> "ID"] >>
    ELSE << [Non_unique |-> 1, Key_name |-> "IDX_LINE", Column_name |-> "line"] >>

get_table_schema(layout) ==
    LET d == Describe(layout)
    IN  [i \in 1..Len(d) |->
            [name |-> d[i].Field, type |-> d[i].Type,
             nullable |-> (d[i].Null = "YES"), is_primary |-> (d[i].Key = "PRI")]]

RECURSIVE GroupIndexRows(_, _)
GroupIndexRows(rows, indexes) ==
    IF rows = <<>> THEN indexes
    ELSE LET r == Head(rows)
         IN  IF r.Key_name = "PRIMARY" THEN GroupIndexRows(Tail(rows), indexes)
             ELSE IF \E i \in 1..Len(indexes) : indexes[i].name = r.Key_name
             THEN GroupIndexRows(Tail(rows),
                    [i \in 1..Len(indexes) |->
                        IF indexes[i].name = r.Key_name
                        THEN [indexes[i] EXCEPT !.columns = Append(@, r.Column_name)]
                        ELSE indexes[i]])
             ELSE GroupIndexRows(Tail(rows),
                    Append(indexes, [name |-> r.Key_name, unique |-> (r.Non_unique = 0),
                                     columns |-> <<r.Column_name>>]))

get_table_indexes(layout) == GroupIndexRows(ShowIndex(layout), <<>>)

\* INFORMATION_SCHEMA.KEY_COLUMN_USAGE rows with a referenced table, by
\* constraint and ordinal: (CONSTRAINT_NAME, COLUMN_NAME, REFERENCED_TABLE_NAME,
\* REFERENCED_COLUMN_NAME)
KeyColumnUsage(layout) ==
    IF layout = "deal"
    THEN << [CONSTRAINT_NAME |-> "FK_DEAL_STATUS", COLUMN_NAME |-> "STATUS",
             REFERENCED_TABLE_NAME |-> "T_STATUS", REFERENCED_COLUMN_NAME |-> "CODE"] >>
    ELSE <<>>

RECURSIVE GroupFkRows(_, _)
GroupFkRows(rows, fks) ==
    IF rows = <<>> THEN fks
    ELSE LET r == Head(rows)
         IN  IF \E i \in 1..Len(fks) : fks[i].name = r.CONSTRAINT_NAME
             THEN GroupFkRows(Tail(rows),
                    [i \in 1..Len(fks) |->
                        IF fks[i].name = r.CONSTRAINT_NAME
                        THEN [fks[i] EXCEPT !.columns = Append(@, r.COLUMN_NAME),
                                            !.ref_columns = Append(@, r.REFERENCED_COLUMN_NAME)]
                        ELSE fks[i]])
             ELSE GroupFkRows(Tail(rows),
                    Append(fks, [name |-> r.CONSTRAINT_NAME, columns |-> <<r.COLUMN_NAME>>,
                                 ref_table |-> r.REFERENCED_TABLE_NAME,
                                 ref_columns |-> <<r.REFERENCED_COLUMN_NAME>>]))

get_table_foreign_keys(layout) == GroupFkRows(KeyColumnUsage(layout), <<>>)

\* primary_keys = [col['name'] for col in columns if col['is_primary']]
PrimaryKeys(columns) ==
    SelectIdx([i \in 1..Len(columns) |-> columns[i].name],
              {i \in 1..Len(columns) : columns[i].is_primary}, 1)

---------------------------------------------------------------------------
\* ChunkPlanner.

DatePriority(col_name_lower) ==
    IF StrContains(col_name_lower, "created") THEN 3
    ELSE IF StrContains(col_name_lower, "date") \/ StrContains(col_name_lower, "time") THEN 2
    ELSE 1

\* the (priority, col_name) tuples of the datetime/timestamp columns
DateColumns(layout) ==
    LET d == Describe(layout)
    IN  { <<DatePriority(StrLower(d[i].Field)), d[i].Field>> :
            i \in {j \in 1..Len(d) : StrContains(StrLower(d[j].Type), "datetime")
                                     \/ StrContains(StrLower(d[j].Type), "timestamp")} }

TupleLess(a, b) == a[1] < b[1] \/ (a[1] = b[1] /\ StrLess(a[2], b[2]))

\* the column name, or "" for None
find_date_column(layout) ==
    LET dc == DateColumns(layout)
    IN  IF dc = {} THEN ""
        ELSE (CHOOSE a \in dc : \A b \in dc : b = a \/ TupleLess(b, a))[2]

\* the years of the rows whose chunking column IS NOT NULL
NonNullYears(rows) == {rows[i] : i \in {j \in 1..Len(rows) : rows[j] # 0}}

MinOf(S) == CHOOSE x \in S : \A y \in S : x <= y
MaxOf(S) == CHOOSE x \in S : \A y \in S : x >= y

\* a planner that lists the year of every row that has one, row by row
get_year_ranges_per_row(rows) ==
    SelectIdx(rows, {i \in 1..Len(rows) : rows[i] # 0}, 1)

\* range(min_year, max_year + 1) as a list; [] when every value is NULL
get_year_ranges(rows) ==
    IF NonNullYears(rows) = {} THEN <<>>
    ELSE LET lo == MinOf(NonNullYears(rows))
             hi == MaxOf(NonNullYears(rows))
         IN  [k \in 1..(hi - lo + 1) |-> lo + k - 1]

SeqToSet(s) == {s[i] : i \in 1..Len(s)}

---------------------------------------------------------------------------
\* The sink: a table's definition and rows, and what one connection's
\* transaction does.  sink rows are a bag: rows[i] counts the copies of source
\* row i held by the sink table.

AbsentTable(n) ==
    [exists |-> FALSE, unlogged |-> FALSE, coldefs |-> <<>>, pk |-> <<>>,
     indexes |-> {}, fks |-> {}, rows |-> [i \in 1..n |-> 0]]

HasDuplicates(tbl) == \E i \in DOMAIN tbl.rows : tbl.rows[i] > 1

\* a primary key or a unique index makes the sink refuse a second copy of a row
EnforcesUnique(tbl) == tbl.pk # <<>> \/ \E ix \in tbl.indexes : ix.unique

Occurrences(seq, x) == Cardinality({i \in 1..Len(seq) : seq[i] = x})

AddRows(tbl, ids) ==
    [tbl EXCEPT !.rows = [i \in DOMAIN tbl.rows |-> tbl.rows[i] + Occurrences(ids, i)]]

\* the index names of the sink schema (index names are schema-wide in the sink)
IndexNames(snk) == UNION {{ix.name : ix \in snk[t].indexes} : t \in DOMAIN snk}

\* does the sink refuse the statement on the table as the transaction sees it
Refused(stmt, tbl, taken) ==
    \/ ~tbl.exists
    \/ stmt.kind = "ADD PRIMARY KEY" /\ (tbl.pk # <<>> \/ HasDuplicates(tbl))
    \/ stmt.kind \in {"CREATE INDEX", "CREATE UNIQUE INDEX"}
         /\ (stmt.name \in taken \/ stmt.name \in {ix.name : ix \in tbl.indexes})
    \/ stmt.kind = "CREATE UNIQUE INDEX" /\ HasDuplicates(tbl)
    \/ stmt.kind = "ADD FOREIGN KEY" /\ stmt.name \in tbl.fks

Apply(stmt, tbl) ==
    IF stmt.kind = "SET LOGGED" THEN [tbl EXCEPT !.unlogged = FALSE]
    ELSE IF stmt.kind = "ADD PRIMARY KEY" THEN [tbl EXCEPT !.pk = stmt.columns]
    ELSE IF stmt.kind = "ADD FOREIGN KEY" THEN [tbl EXCEPT !.fks = @ \cup {stmt.name}]
    ELSE [tbl EXCEPT !.indexes = @ \cup {[name |-> stmt.name,
                                          unique |-> (stmt.kind = "CREATE UNIQUE INDEX")]}]

\* cur.execute(stmt) inside try/except: a statement the sink refuses, or any
\* statement sent after one was refused, fails and leaves the transaction
\* aborted; the handler only prints.  tx = [tbl, aborted, log].
Execute(stmt, rejected, tx, taken) ==
    IF tx.aborted \/ rejected \/ Refused(stmt, tx.tbl, taken)
    THEN [tx EXCEPT !.aborted = TRUE, !.log = Append(@, [stmt |-> stmt, ok |-> FALSE])]
    ELSE [tx EXCEPT !.tbl = Apply(stmt, tx.tbl), !.log = Append(@, [stmt |-> stmt, ok |-> TRUE])]

\* pg_conn.commit(): an aborted transaction is rolled back by COMMIT
Commit(before, tx) == IF tx.aborted THEN before ELSE tx.tbl

---------------------------------------------------------------------------
\* TableProvisioner.

ColDefs(columns) ==
    [i \in 1..Len(columns) |->
        [name |-> StrLower(columns[i].name), pg_type |-> convert_mysql_type(columns[i].type),
         not_null |-> ~columns[i].nullable]]

\* primary_keys as create_table collects them while building the definition
CreatedPrimaryKeys(columns) ==
    SelectIdx([i \in 1..Len(columns) |-> Quoted(StrLower(columns[i].name))],
              {i \in 1..Len(columns) : columns[i].is_primary}, 1)

\* primary_keys as create_table returns them for a table that already exists
ExistingPrimaryKeys(columns) == PrimaryKeys(columns)

CreateStmt(unlogged) ==
    [kind |-> IF unlogged THEN "CREATE UNLOGGED TABLE" ELSE "CREATE TABLE",
     name |-> "", columns |-> <<>>]

\* create_table that replaces a table it finds (DROP TABLE, then CREATE)
create_table_recreate(tbl, columns, skip_constraints, unlogged, rejected) ==
    [ret |-> CreatedPrimaryKeys(columns), raised |-> FALSE,
     log |-> (IF tbl.exists
              THEN <<[stmt |-> [kind |-> "DROP TABLE", name |-> "", columns |-> <<>>],
                      ok |-> TRUE]>>
              ELSE <<>>) \o <<[stmt |-> CreateStmt(unlogged), ok |-> TRUE]>>,
     tbl |-> [AbsentTable(Len(tbl.rows)) EXCEPT
                !.exists = TRUE, !.unlogged = unlogged, !.coldefs = ColDefs(columns),
                !.pk = IF skip_constraints THEN <<>> ELSE CreatedPrimaryKeys(columns)]]

\* create_table: [ret, tbl, log, raised]; rejected: the sink refuses the CREATE
create_table(tbl, columns, skip_constraints, unlogged, rejected) ==
    IF tbl.exists
    THEN [ret |-> ExistingPrimaryKeys(columns), tbl |-> tbl, log |-> <<>>, raised |-> FALSE]
    ELSE IF rejected
    THEN [ret |-> <<>>, tbl |-> tbl, raised |-> TRUE,
          log |-> <<[stmt |-> CreateStmt(unlogged), ok |-> FALSE]>>]
    ELSE [ret |-> CreatedPrimaryKeys(columns), raised |-> FALSE,
          log |-> <<[stmt |-> CreateStmt(unlogged), ok |-> TRUE]>>,
          tbl |-> [tbl EXCEPT !.exists = TRUE, !.unlogged = unlogged,
                              !.coldefs = ColDefs(columns),
                              !.pk = IF skip_constraints THEN <<>>
                                     ELSE CreatedPrimaryKeys(columns)]]

---------------------------------------------------------------------------
\* ConstraintFinalizer.

LowerAll(names) == [i \in 1..Len(names) |-> StrLower(names[i])]

IndexStmt(idx) ==
    [kind |-> IF idx.unique THEN "CREATE UNIQUE INDEX" ELSE "CREATE INDEX",
     name |-> StrLower(idx.name), columns |-> LowerAll(idx.columns)]

\* the finalize statements with the secondary indexes sent before the key
FinalizeStmtsIndexesFirst(primary_keys, indexes) ==
    <<[kind |-> "SET LOGGED", name |-> "", columns |-> <<>>]>>
    \o [i \in 1..Len(indexes) |-> IndexStmt(indexes[i])]
    \o (IF primary_keys # <<>>
        THEN <<[kind |-> "ADD PRIMARY KEY", name |-> "", columns |-> LowerAll(primary_keys)]>>
        ELSE <<>>)

\* the statements of create_indexes_and_constraints in the order it sends them
FinalizeStmts(primary_keys, indexes) ==
    <<[kind |-> "SET LOGGED", name |-> "", columns |-> <<>>]>>
    \o (IF primary_keys # <<>>
        THEN <<[kind |-> "ADD PRIMARY KEY", name |-> "", columns |-> LowerAll(primary_keys)]>>
        ELSE <<>>)
    \o [i \in 1..Len(indexes) |-> IndexStmt(indexes[i])]

RECURSIVE ExecuteAll(_, _, _, _, _)
ExecuteAll(stmts, rejects, i, tx, taken) ==
    IF i > Len(stmts) THEN tx
    ELSE ExecuteAll(stmts, rejects, i + 1, Execute(stmts[i], i \in rejects, tx, taken), taken)

\* step 4 of create_indexes_and_constraints as the disabled block would send it
ForeignKeyStmt(fk) ==
    [kind |-> "ADD FOREIGN KEY", name |-> StrLower(fk.name), columns |-> LowerAll(fk.columns)]

\* create_indexes_and_constraints with its foreign-key step enabled
create_indexes_and_constraints_with_fks(tbl, primary_keys, indexes, foreign_keys, rejects, taken) ==
    LET stmts == FinalizeStmts(primary_keys, indexes)
                 \o [i \in 1..Len(foreign_keys) |-> ForeignKeyStmt(foreign_keys[i])]
        tx == ExecuteAll(stmts, rejects, 1,
                         [tbl |-> tbl, aborted |-> FALSE, log |-> <<>>], taken)
    IN  [tbl |-> Commit(tbl, tx), log |-> tx.log]

\* create_indexes_and_constraints on one cursor, one commit at the end:
\* [tbl, log]; rejects: the positions of the statements the sink refuses;
\* foreign_keys is received and not used
create_indexes_and_constraints(tbl, primary_keys, indexes, foreign_keys, rejects, taken) ==
    LET tx == ExecuteAll(FinalizeStmts(primary_keys, indexes), rejects, 1,
                         [tbl |-> tbl, aborted |-> FALSE, log |-> <<>>], taken)
    IN  [tbl |-> Commit(tbl, tx), log |-> tx.log]

\* what create_indexes_and_constraints prints for one attempted statement
StatementMessage(e) ==
    IF e.stmt.kind = "SET LOGGED"
    THEN [step |-> "logging",
          text |-> IF e.ok THEN "Enabled WAL logging" ELSE "Could not enable logging"]
    ELSE IF e.stmt.kind = "ADD PRIMARY KEY"
    THEN [step |-> "primary key",
          text |-> IF e.ok THEN "Created PRIMARY KEY" ELSE "Failed to create PRIMARY KEY"]
    ELSE [step |-> "index",
          text |-> IF ~e.ok THEN "Failed to create index"
                   ELSE IF e.stmt.kind = "CREATE UNIQUE INDEX" THEN "Created UNIQUE INDEX"
                   ELSE "Created INDEX"]

\* everything one call of create_indexes_and_constraints prints, in order:
\* one line per statement it attempted (a step it does not take prints
\* nothing), then the elapsed time
FinalizeMessages(log) ==
    [i \in 1..Len(log) |-> StatementMessage(log[i])]
    \o <<[step |-> "timing", text |-> "Index creation took"]>>

---------------------------------------------------------------------------
\* BulkLoader: the fetch/COPY loop shared by migrate_table_data (sequential
\* path) and migrate_year_chunk.

Min(a, b) == IF a < b THEN a ELSE b

\* the offsets 0, B, 2B, ... below total
Windows(total) == {o \in 0..(total - 1) : o % BATCH_SIZE = 0}

\* SELECT ... LIMIT chunk_size OFFSET offset over the unit's rows
FetchWindow(unit, offset) == SubSeq(unit, offset + 1, Min(offset + BATCH_SIZE, Len(unit)))

\* what can go wrong in one load: the COPYs the sink rejects, and the fetch at
\* which the source connection breaks
Plans(total) ==
    {[copy |-> c, fetch |-> f] :
        c \in SUBSET Windows(total), f \in {{}} \cup {{w} : w \in Windows(total)}}

\* plans that differ only in faults the run never reaches are the same run
Effective(plan) == \A c \in plan.copy : \A f \in plan.fetch : c < f

CopyRefused(batch, tbl, pending) ==
    EnforcesUnique(tbl)
    /\ \E k \in 1..Len(batch) : tbl.rows[batch[k]] > 0 \/ Occurrences(pending, batch[k]) > 0

\* a loop body that sends a window again, once, when its COPY was rejected
LoopBodyRetryOnce(unit, tbl, plan, lp) ==
    LET batch == FetchWindow(unit, lp.offset)
        ok == lp.offset \notin plan.copy /\ ~CopyRefused(batch, tbl, lp.pending)
        again == ~ok /\ (lp.copies = <<>> \/ lp.copies[Len(lp.copies)].offset # lp.offset)
    IN  [offset |-> IF again THEN lp.offset ELSE lp.offset + BATCH_SIZE,
         fetched |-> Append(lp.fetched, lp.offset),
         copies |-> Append(lp.copies, [offset |-> lp.offset, ok |-> ok]),
         processed |-> IF ok THEN lp.processed + Len(batch) ELSE lp.processed,
         pending |-> IF ok THEN lp.pending \o batch ELSE <<>>]

\* one pass of `while offset < total`: lp = [offset, processed, pending, fetched, copies]
LoopBody(unit, tbl, plan, lp) ==
    LET batch == FetchWindow(unit, lp.offset)
        batch_count == Len(batch)
        ok == lp.offset \notin plan.copy /\ ~CopyRefused(batch, tbl, lp.pending)
    IN  [offset |-> lp.offset + BATCH_SIZE,
         fetched |-> Append(lp.fetched, lp.offset),
         copies |-> IF batch_count > 0
                    THEN Append(lp.copies, [offset |-> lp.offset, ok |-> ok]) ELSE lp.copies,
         \* copy_expert succeeded: processed += batch_count
         processed |-> IF batch_count > 0 /\ ok THEN lp.processed + batch_count
                       ELSE lp.processed,
         \* copy_expert raised: pg_conn.rollback() ends the connection's transaction
         pending |-> IF batch_count = 0 THEN lp.pending
                     ELSE IF ok THEN lp.pending \o batch ELSE <<>>]

RECURSIVE LoadLoop(_, _, _, _, _)
LoadLoop(unit, total, tbl, plan, lp) ==
    IF lp.offset < total
    THEN IF lp.offset \in plan.fetch
         \* the exception leaves the loop: no commit, close() discards the transaction
         THEN [raised |-> TRUE, processed |-> lp.processed, committed |-> <<>>,
               fetched |-> lp.fetched, copies |-> lp.copies]
         ELSE LoadLoop(unit, total, tbl, plan, LoopBody(unit, tbl, plan, lp))
    ELSE \* pg_conn.commit()
         [raised |-> FALSE, processed |-> lp.processed, committed |-> lp.pending,
               fetched |-> lp.fetched, copies |-> lp.copies]

LoopStart == [offset |-> 0, processed |-> 0, pending |-> <<>>, fetched |-> <<>>, copies |-> <<>>]

\* the positions of the rows a unit reads: every row, or the rows of one year
AllRows(rows) == [i \in 1..Len(rows) |-> i]
YearRows(rows, year) == SelectIdx(AllRows(rows), {i \in 1..Len(rows) : rows[i] = year}, 1)

---------------------------------------------------------------------------
\* What introspection yields for each layout.  migrate_table keeps columns,
\* indexes and primary_keys in locals from PHASE 1 on; the source is static,
\* so they are the catalogue's answer for the table's layout throughout.

Descriptor ==
    [l \in Layouts |->
        [columns |-> get_table_schema(l),
         indexes |-> get_table_indexes(l),
         foreign_keys |-> get_table_foreign_keys(l),
         primary_keys |-> PrimaryKeys(get_table_schema(l)),
         date_column |-> find_date_column(l)]]

---------------------------------------------------------------------------
\* Initial states: a request, a source catalogue, and a sink that is empty or
\* holds what an earlier run left.

NoShape == [exists |-> FALSE, layout |-> "log", rows |-> <<>>]

\* the states of one source table: missing, or present with up to maxRows rows
Shapes(t, maxRows) ==
    {NoShape}
    \cup {[exists |-> TRUE, layout |-> LayoutOf(t), rows |-> r] :
            r \in UNION {[1..n -> IF Descriptor[LayoutOf(t)].date_column = ""
                                  THEN {0} ELSE YearVals] : n \in 0..maxRows}}

\* the sink table a completed earlier run of this program leaves
CompletedTable(shape) ==
    [exists |-> TRUE, unlogged |-> FALSE,
     coldefs |-> ColDefs(Descriptor[shape.layout].columns),
     pk |-> LowerAll(Descriptor[shape.layout].primary_keys),
     indexes |-> {[name |-> IndexStmt(ix).name, unique |-> ix.unique] :
                    ix \in SeqToSet(Descriptor[shape.layout].indexes)},
     fks |-> {},
     rows |-> [i \in 1..Len(shape.rows) |-> 1]]

\* the sink table an earlier run leaves when it loaded the rows and its
\* FINALIZE changed nothing
LoadedTable(shape) ==
    [AbsentTable(Len(shape.rows)) EXCEPT
        !.exists = TRUE, !.unlogged = TRUE,
        !.coldefs = ColDefs(Descriptor[shape.layout].columns),
        !.rows = [i \in 1..Len(shape.rows) |-> 1]]

PriorTables(shape) ==
    IF shape.exists
    THEN {AbsentTable(Len(shape.rows)), LoadedTable(shape), CompletedTable(shape)}
    ELSE {AbsentTable(0)}

\* a source table together with the sink table found for it
Configs(t, maxRows) ==
    UNION {{<<sh, tb>> : tb \in PriorTables(sh)} : sh \in Shapes(t, maxRows)}

NoPlan == [copy |-> {}, fetch |-> {}]

NoLoad ==
    [path |-> "none", ret |-> "none", total |-> 0, processed |-> 0, plan |-> NoPlan,
     years |-> <<>>, committed |-> <<>>, fetched |-> <<>>, copies |-> <<>>]

NoFin == [ran |-> FALSE, raised |-> FALSE, rejects |-> {}]

NoCall ==
    [fn |-> "none", column_type |-> "", done |-> FALSE, out |-> "", by |-> "",
     value |-> [kind |-> "None", n |-> 0, data |-> <<>>], field |-> <<>>, path |-> "seq",
     total |-> 0, plan |-> NoPlan, layout |-> "log", row |-> <<>>, fault |-> 0,
     columns |-> <<>>, col_names |-> <<>>, fields |-> <<>>, record |-> <<>>, log |-> <<>>,
     batch_count |-> 0,
     loop |-> [raised |-> FALSE, processed |-> 0, committed |-> <<>>, fetched |-> <<>>,
               copies |-> <<>>]]

NoChanges == [new_columns |-> <<>>, modified_columns |-> <<>>, dropped_columns |-> <<>>]

\* backfill.py has not been started
NoBackfill ==
    [pc |-> "idle", dry_run |-> FALSE, source |-> <<>>, columns |-> <<>>, has_pk |-> FALSE,
     changes |-> NoChanges, i |-> 1, stmts |-> <<>>, updated |-> {}, ret |-> "none"]

\* main before migrate_database, with max_workers = MAX_WORKERS
IdleDb ==
    [pc |-> "main", collected |-> {}, success_count |-> 0, ret |-> FALSE,
     code |-> -1, schema |-> <<>>, workers |-> MAX_WORKERS]

\* no table task has started, no connection has been opened
InitTasks ==
    /\ ddl = [t \in TableNames |-> <<>>]
    /\ pc = [t \in TableNames |-> "idle"]
    /\ load = [t \in TableNames |-> NoLoad]
    /\ chunk = [t \in TableNames |-> <<>>]
    /\ fin = [t \in TableNames |-> NoFin]
    /\ provret = [t \in TableNames |-> <<>>]
    /\ conns = {}
    /\ bf = NoBackfill

\* no task has started
InitIdle == InitTasks /\ db = IdleDb

\* everything but the request, the source and the sink
InitRest == InitIdle /\ call = NoCall

\* one requested table, any source and sink state within the bounds
Init ==
    /\ \E t \in TableNames : \E cfg \in Configs(t, MaxRows) :
        /\ tables = {t}
        /\ src = [u \in TableNames |-> IF u = t THEN cfg[1] ELSE NoShape]
        /\ sink = [u \in TableNames |-> IF u = t THEN cfg[2] ELSE AbsentTable(0)]
    /\ InitRest

\* the rows of the tables of a request that lists every table
PairRows(t) == IF t = "T_DEAL" THEN <<2020, 2022>> ELSE <<0, 0, 0>>

PairShapes(t) == {NoShape, [exists |-> TRUE, layout |-> LayoutOf(t), rows |-> PairRows(t)]}

\* every table requested, each missing from the source or present; sink empty
InitDb ==
    /\ tables = TableNames
    /\ src \in [TableNames -> UNION {PairShapes(t) : t \in TableNames}]
    /\ \A t \in TableNames : src[t] \in PairShapes(t)
    /\ sink = [t \in TableNames |-> AbsentTable(Len(src[t].rows))]
    /\ InitRest

\* every table requested, on a table pool of any size from 1 to MAX_WORKERS
\* (--max-workers); sink empty
InitPool ==
    /\ tables = TableNames
    /\ src \in [TableNames -> UNION {PairShapes(t) : t \in TableNames}]
    /\ \A t \in TableNames : src[t] \in PairShapes(t)
    /\ sink = [t \in TableNames |-> AbsentTable(Len(src[t].rows))]
    /\ InitTasks
    /\ \E workers \in 1..MAX_WORKERS : db = [IdleDb EXCEPT !.workers = workers]
    /\ call = NoCall

---------------------------------------------------------------------------
\* Connections.  A worker is a task of one of the two pools: the migrate_table
\* task of table t (y = 0) or the migrate_year_chunk task of year y of t; main
\* is the worker of no table.  A connection is [by, phase, side, st, users]:
\* the worker whose code opened it, the place that opened it, source (mysql)
\* or sink (pg), open / closed (close() was called) / reclaimed (never closed,
\* collected after its function had returned), and the workers whose code ran
\* on it.

Worker(t, y) == [t |-> t, y |-> y]
MainWorker == Worker("", 0)

\* how a get_mysql_conn(); get_pg_conn() pair can fail
ConnectFaults == {"none", "mysql", "pg"}

\* connections opened by worker w at phase
Open(cs, w, phase, sides) ==
    cs \cup {[by |-> w, phase |-> phase, side |-> sd, st |-> "open", users |-> {w}] :
                sd \in sides}

\* mysql_conn = get_mysql_conn(...); pg_conn = get_pg_conn(): the second is
\* not reached when the first raises, and the first stays open when the
\* second raises
Connect(cs, w, phase, fail) ==
    Open(cs, w, phase, IF fail = "mysql" THEN {}
                       ELSE IF fail = "pg" THEN {"mysql"} ELSE {"mysql", "pg"})

\* the code of worker `user` runs on the connections opened by w at phase
Use(cs, user, w, phase) ==
    {IF c.by = w /\ c.phase = phase THEN [c EXCEPT !.users = @ \cup {user}] ELSE c : c \in cs}

\* mysql_conn.close(); pg_conn.close() on the connections opened by w at phase
Close(cs, w, phase) ==
    {IF c.by = w /\ c.phase = phase /\ c.st = "open" THEN [c EXCEPT !.st = "closed"] ELSE c :
        c \in cs}

\* a chunked path that leaves the table task's connections open while the
\* year tasks run
KeepOpenForChunks(cs, t) == cs

\* "Close connections - each worker will create their own", before the year
\* tasks are submitted
CloseBeforeChunks(cs, t) == Close(cs, Worker(t, 0), "PHASE 2")

---------------------------------------------------------------------------
\* main and migrate_database.

Terminal(t) == pc[t] \in {"DONE", "FAILED"}
Running(t) == pc[t] \in {"discover", "provision", "load", "chunks", "finalize"}

\* main up to the submission of every table to the table pool; a connection
\* or create_schema failure is not caught anywhere: the process dies with 1
DbStart ==
    /\ db.pc = "main"
    /\ \E ok \in BOOLEAN :
        IF ok
        THEN /\ db' = [db EXCEPT !.pc = "pool",
                                 !.schema = <<"CREATE SCHEMA IF NOT EXISTS",
                                              "ALTER SCHEMA OWNER TO">>]
             /\ pc' = [t \in TableNames |-> IF t \in tables THEN "queued" ELSE pc[t]]
             /\ conns' = Close(Open(conns, MainWorker, "SCHEMA", {"pg"}), MainWorker, "SCHEMA")
        ELSE /\ db' = [db EXCEPT !.pc = "exit", !.code = 1]
             /\ pc' = pc
             /\ conns' = conns
    /\ UNCHANGED <<bf, call, tables, src, sink, ddl, load, chunk, fin, provret>>

\* a pool worker takes the next migrate_table task
TableStart(t) ==
    /\ db.pc = "pool"
    /\ pc[t] = "queued"
    /\ Cardinality({u \in tables : Running(u)}) < db.workers
    /\ pc' = [pc EXCEPT ![t] = "discover"]
    /\ UNCHANGED <<bf, call, conns, tables, src, sink, ddl, load, chunk, fin, provret, db>>

\* what future.result() gives for a finished migrate_table task
TableResult(t) == pc[t] = "DONE"

\* for future in as_completed(futures): if future.result(): success_count += 1
DbCollect(t) ==
    /\ db.pc = "pool"
    /\ t \in tables \ db.collected
    /\ Terminal(t)
    /\ db' = [db EXCEPT !.collected = @ \cup {t},
                        !.success_count = IF TableResult(t) THEN @ + 1 ELSE @]
    /\ UNCHANGED <<bf, call, conns, tables, src, sink, ddl, pc, load, chunk, fin, provret>>

\* a collection loop that a failed table ends at once
PoolDrainedOrFailed ==
    \/ db.collected = tables /\ \A t \in tables : Terminal(t)
    \/ \E t \in db.collected : pc[t] = "FAILED"

\* every future has been consumed and the executor has shut down
PoolDrained == db.collected = tables /\ \A t \in tables : Terminal(t)

DbReturn ==
    /\ db.pc = "pool"
    /\ PoolDrained
    /\ db' = [db EXCEPT !.pc = "returned", !.ret = (db.success_count = Cardinality(tables))]
    /\ UNCHANGED <<bf, call, conns, tables, src, sink, ddl, pc, load, chunk, fin, provret>>

\* if not migrate_database(...): sys.exit(1)
MainExit ==
    /\ db.pc = "returned"
    /\ db' = [db EXCEPT !.pc = "exit", !.code = IF db.ret THEN 0 ELSE 1]
    /\ UNCHANGED <<bf, call, conns, tables, src, sink, ddl, pc, load, chunk, fin, provret>>

---------------------------------------------------------------------------
\* migrate_table.

\* where the task goes when an exception reaches `except Exception`
OnException == "FAILED"

\* a migrate_table that goes on to PHASE 3 whatever the load returned
AfterLoadAlwaysFinalize(success) == "finalize"

\* success = migrate_table_data(...); if not success: return False
AfterLoad(success) == IF success THEN "finalize" ELSE "FAILED"

\* PHASE 1, introspection: connections and the catalogue queries
Discover(t) ==
    /\ pc[t] = "discover"
    /\ \E fail \in ConnectFaults :
        /\ pc' = [pc EXCEPT ![t] = IF fail = "none" /\ src[t].exists THEN "provision"
                                   ELSE OnException]
        \* no close() on the way to the except clause
        /\ conns' = Connect(conns, Worker(t, 0), "PHASE 1", fail)
    /\ UNCHANGED <<bf, call, tables, src, sink, ddl, load, chunk, fin, provret, db>>

\* PHASE 1, create_table(..., skip_constraints=True, unlogged=True)
Provision(t) ==
    /\ pc[t] = "provision"
    /\ \E rejected \in BOOLEAN :
        LET r == create_table(sink[t], Descriptor[src[t].layout].columns, TRUE, TRUE, rejected)
        IN  /\ (rejected => ~sink[t].exists)
            /\ sink' = [sink EXCEPT ![t] = r.tbl]
            /\ ddl' = [ddl EXCEPT ![t] = @ \o r.log]
            /\ provret' = [provret EXCEPT ![t] =
                    Append(@, [existed |-> sink[t].exists, raised |-> r.raised, ret |-> r.ret])]
            /\ pc' = [pc EXCEPT ![t] = IF r.raised THEN OnException ELSE "load"]
            \* mysql_conn.close(); pg_conn.close() is reached when nothing raised
            /\ conns' = IF r.raised THEN Use(conns, Worker(t, 0), Worker(t, 0), "PHASE 1")
                        ELSE Close(Use(conns, Worker(t, 0), Worker(t, 0), "PHASE 1"),
                                   Worker(t, 0), "PHASE 1")
    /\ UNCHANGED <<bf, call, tables, src, load, chunk, fin, db>>

---------------------------------------------------------------------------
\* migrate_table_data and migrate_year_chunk.

\* a decision that fans out as soon as one year is found
UseChunksAnyYear(total, date_column, years) ==
    total >= LARGE_TABLE_THRESHOLD /\ date_column # "" /\ Len(years) >= 1

\* the test that sends a table down the year-chunked path
UseChunks(total, date_column, years) ==
    total >= LARGE_TABLE_THRESHOLD /\ date_column # "" /\ Len(years) > 1

QueuedChunk ==
    [st |-> "queued", out |-> "none", total |-> 0, processed |-> 0, plan |-> NoPlan,
     committed |-> <<>>, fetched |-> <<>>, copies |-> <<>>]

\* PHASE 2 up to the choice of path; the empty table and the sequential load
\* run to their return here, the chunked load submits its year tasks
LoadStart(t) ==
    /\ pc[t] = "load"
    /\ \E fail \in ConnectFaults \cup {"query"} :
        LET rows == src[t].rows
            w == Worker(t, 0)
            \* the connections of a call that got both
            opened == Connect(conns, w, "PHASE 2", "none")
            total == Len(rows)
            date_column == Descriptor[src[t].layout].date_column
            years == IF date_column # "" THEN get_year_ranges(rows) ELSE <<>>
        IN  IF fail # "none"
            THEN \* get_mysql_conn/get_pg_conn raise to migrate_table; a failed
                 \* query is caught by migrate_table_data, which returns False
                 /\ load' = [load EXCEPT ![t].ret = IF fail = "query" THEN "False"
                                                    ELSE "raised"]
                 /\ pc' = [pc EXCEPT ![t] = IF fail = "query" THEN AfterLoad(FALSE)
                                            ELSE OnException]
                 /\ conns' = IF fail = "query" THEN Close(opened, w, "PHASE 2")
                             ELSE Connect(conns, w, "PHASE 2", fail)
                 /\ UNCHANGED <<sink, chunk>>
            ELSE IF total = 0
            THEN /\ load' = [load EXCEPT ![t].path = "empty", ![t].ret = "True"]
                 /\ pc' = [pc EXCEPT ![t] = AfterLoad(TRUE)]
                 /\ conns' = Close(opened, w, "PHASE 2")
                 /\ UNCHANGED <<sink, chunk>>
            ELSE IF UseChunks(total, date_column, years)
            THEN /\ load' = [load EXCEPT ![t].path = "chunked", ![t].total = total,
                                         ![t].years = years]
                 /\ chunk' = [chunk EXCEPT ![t] = [y \in SeqToSet(years) |-> QueuedChunk]]
                 /\ pc' = [pc EXCEPT ![t] = "chunks"]
                 /\ conns' = CloseBeforeChunks(opened, t)
                 /\ UNCHANGED sink
            ELSE \E plan \in {p \in Plans(total) : Effective(p)} :
                    LET r == LoadLoop(AllRows(rows), total, sink[t], plan, LoopStart)
                    IN  /\ sink' = [sink EXCEPT ![t] = AddRows(@, r.committed)]
                        /\ load' = [load EXCEPT ![t] =
                                [path |-> "seq", ret |-> IF r.raised THEN "False" ELSE "True",
                                 total |-> total, processed |-> r.processed, plan |-> plan,
                                 years |-> <<>>, committed |-> r.committed,
                                 fetched |-> r.fetched, copies |-> r.copies]]
                        /\ pc' = [pc EXCEPT ![t] = AfterLoad(~r.raised)]
                        /\ conns' = Close(opened, w, "PHASE 2")
                        /\ UNCHANGED chunk
    /\ UNCHANGED <<bf, call, tables, src, ddl, fin, provret, db>>

\* a chunk-pool worker takes a year task and opens its connections (outside
\* the task's try: a failure here leaves through future.result())
ChunkStart(t, y) ==
    /\ y \in DOMAIN chunk[t]
    /\ chunk[t][y].st = "queued"
    /\ Cardinality({z \in DOMAIN chunk[t] : chunk[t][z].st = "running"}) < CHUNK_WORKERS
    /\ \E fail \in ConnectFaults :
        /\ chunk' = [chunk EXCEPT ![t][y] =
                    IF fail = "none" THEN [@ EXCEPT !.st = "running"]
                    ELSE [@ EXCEPT !.st = "done", !.out = "raised"]]
        /\ conns' = Connect(conns, Worker(t, y), "CHUNK", fail)
    /\ UNCHANGED <<bf, call, tables, src, sink, ddl, pc, load, fin, provret, db>>

\* the rest of migrate_year_chunk: count, fetch/COPY loop, commit, return;
\* an exception inside is caught and the task returns (year, 0, 0)
ChunkRun(t, y) ==
    /\ y \in DOMAIN chunk[t]
    /\ chunk[t][y].st = "running"
    /\ LET unit == YearRows(src[t].rows, y)
           total == Len(unit)
       IN  IF total = 0
           THEN /\ chunk' = [chunk EXCEPT ![t][y] = [@ EXCEPT !.st = "done", !.out = "ok"]]
                /\ UNCHANGED sink
           ELSE \E plan \in {p \in Plans(total) : Effective(p)} :
                    LET r == LoadLoop(unit, total, sink[t], plan, LoopStart)
                    IN  /\ sink' = [sink EXCEPT ![t] = AddRows(@, r.committed)]
                        /\ chunk' = [chunk EXCEPT ![t][y] =
                                [st |-> "done", out |-> IF r.raised THEN "error" ELSE "ok",
                                 total |-> total,
                                 processed |-> IF r.raised THEN 0 ELSE r.processed,
                                 plan |-> plan, committed |-> r.committed,
                                 fetched |-> r.fetched, copies |-> r.copies]]
    \* finally: mysql_conn.close(); pg_conn.close()
    /\ conns' = Close(Use(conns, Worker(t, y), Worker(t, y), "CHUNK"), Worker(t, y), "CHUNK")
    /\ UNCHANGED <<bf, call, tables, src, ddl, pc, load, fin, provret, db>>

\* an executor left without waiting: some year task has finished
ChunksFinishedFirst(t) == \E y \in DOMAIN chunk[t] : chunk[t][y].st = "done"

\* leaving `with ThreadPoolExecutor(...)`: every year task has finished
ChunksFinished(t) == \A y \in DOMAIN chunk[t] : chunk[t][y].st = "done"

RECURSIVE SumProcessed(_, _)
SumProcessed(ch, ys) ==
    IF ys = {} THEN 0
    ELSE LET y == CHOOSE z \in ys : TRUE IN ch[y].processed + SumProcessed(ch, ys \ {y})

\* what the chunked path returns once its tasks are in: a task that raised
\* makes future.result() raise, which migrate_table_data turns into False
ChunkedReturn(ch) ==
    IF \E y \in DOMAIN ch : ch[y].out = "raised" THEN "False" ELSE "True"

\* the as_completed loop and the return of the chunked path
LoadJoin(t) ==
    /\ pc[t] = "chunks"
    /\ ChunksFinished(t)
    /\ load' = [load EXCEPT ![t].ret = ChunkedReturn(chunk[t]),
                            ![t].processed = SumProcessed(chunk[t], DOMAIN chunk[t])]
    /\ pc' = [pc EXCEPT ![t] = AfterLoad(ChunkedReturn(chunk[t]) = "True")]
    \* finally: mysql_conn.close(); pg_conn.close(), a second time
    /\ conns' = Close(conns, Worker(t, 0), "PHASE 2")
    /\ UNCHANGED <<bf, call, tables, src, sink, ddl, chunk, fin, provret, db>>

\* PHASE 3: a fresh sink connection, create_indexes_and_constraints, return True
Finalize(t) ==
    /\ pc[t] = "finalize"
    /\ \E connected \in BOOLEAN :
        LET d == Descriptor[src[t].layout]
            stmts == FinalizeStmts(d.primary_keys, d.indexes)
        IN  IF ~connected
            THEN /\ fin' = [fin EXCEPT ![t] = [ran |-> FALSE, raised |-> TRUE, rejects |-> {}]]
                 /\ pc' = [pc EXCEPT ![t] = OnException]
                 /\ UNCHANGED <<sink, ddl, conns>>
            ELSE \E rejects \in {R \in SUBSET (1..Len(stmts)) : Cardinality(R) <= MaxRejects} :
                    LET r == create_indexes_and_constraints(sink[t], d.primary_keys,
                                                            d.indexes, d.foreign_keys,
                                                            rejects, IndexNames(sink))
                    IN  /\ fin' = [fin EXCEPT ![t] =
                                [ran |-> TRUE, raised |-> FALSE, rejects |-> rejects]]
                        /\ ddl' = [ddl EXCEPT ![t] = @ \o r.log]
                        /\ sink' = [sink EXCEPT ![t] = r.tbl]
                        /\ pc' = [pc EXCEPT ![t] = "DONE"]
                        /\ conns' = Close(Open(conns, Worker(t, 0), "PHASE 3", {"pg"}),
                                          Worker(t, 0), "PHASE 3")
    /\ UNCHANGED <<bf, call, tables, src, load, chunk, provret, db>>

---------------------------------------------------------------------------
\* TableProvisioner called again and again on one sink table, in either mode.

CreateTableCall(t) ==
    /\ t \in tables
    /\ Len(provret[t]) < MaxCalls
    /\ \E skip_constraints \in BOOLEAN, unlogged \in BOOLEAN, rejected \in BOOLEAN :
        LET r == create_table(sink[t], Descriptor[src[t].layout].columns,
                              skip_constraints, unlogged, rejected)
        IN  /\ (rejected => ~sink[t].exists)
            /\ sink' = [sink EXCEPT ![t] = r.tbl]
            /\ ddl' = [ddl EXCEPT ![t] = @ \o r.log]
            /\ provret' = [provret EXCEPT ![t] =
                    Append(@, [existed |-> sink[t].exists, raised |-> r.raised, ret |-> r.ret])]
    /\ UNCHANGED <<bf, call, conns, tables, src, pc, load, chunk, fin, db>>

---------------------------------------------------------------------------
\* The function that opened a connection has returned or raised.
Returned(c) ==
    IF c.phase \in {"PHASE 1", "PHASE 3"} THEN Terminal(c.by.t)
    ELSE IF c.phase = "PHASE 2" THEN load[c.by.t].ret # "none"
    ELSE IF c.phase = "CHUNK" THEN chunk[c.by.t][c.by.y].st = "done"
    ELSE db.pc # "main"

\* a connection nothing closed goes away at some time after the function
\* that held it has returned, when the interpreter collects the object
Reclaim(c) ==
    /\ c.st = "open"
    /\ Returned(c)
    /\ conns' = (conns \ {c}) \cup {[c EXCEPT !.st = "reclaimed"]}
    /\ UNCHANGED <<bf, call, tables, src, sink, ddl, pc, load, chunk, fin, provret, db>>

ChunkYears == MinOf(Years)..MaxOf(Years)

Next ==
    \/ DbStart
    \/ \E t \in TableNames : TableStart(t)
    \/ \E t \in TableNames : Discover(t)
    \/ \E t \in TableNames : Provision(t)
    \/ \E t \in TableNames : LoadStart(t)
    \/ \E t \in TableNames : \E y \in ChunkYears : ChunkStart(t, y)
    \/ \E t \in TableNames : \E y \in ChunkYears : ChunkRun(t, y)
    \/ \E t \in TableNames : LoadJoin(t)
    \/ \E t \in TableNames : Finalize(t)
    \/ \E t \in TableNames : DbCollect(t)
    \/ DbReturn
    \/ MainExit
    \/ \E c \in conns : Reclaim(c)

\* one requested table
Spec == Init /\ [][Next]_vars

\* every table requested
SpecDb == InitDb /\ [][Next]_vars

\* every table requested, any pool size
SpecPool == InitPool /\ [][Next]_vars

InitProv ==
    /\ \E t \in TableNames : \E cfg \in Configs(t, MaxRows) :
        /\ cfg[1].exists
        /\ tables = {t}
        /\ src = [u \in TableNames |-> IF u = t THEN cfg[1] ELSE NoShape]
        /\ sink = [u \in TableNames |-> IF u = t THEN cfg[2] ELSE AbsentTable(0)]
    /\ InitRest

NextProv == \E t \in TableNames : CreateTableCall(t)

\* create_table on its own
SpecProv == InitProv /\ [][NextProv]_vars

---------------------------------------------------------------------------
\* Claims.

FinalizeKinds ==
    {"SET LOGGED", "ADD PRIMARY KEY", "CREATE INDEX", "CREATE UNIQUE INDEX", "ADD FOREIGN KEY"}

\* the finalize statements attempted on t so far, in order
FinalizeLog(t) == SelectSeq(ddl[t], LAMBDA e : e.stmt.kind \in FinalizeKinds)

Failed(copies) == {i \in 1..Len(copies) : ~copies[i].ok}

\* C1's statement for one finished load of `unit` into t: with exactly one
\* COPY rejected, the rows of every window whose COPY succeeded are in the sink
\* and the rows of the rejected window are not part of what the load committed
IsolatedBatches(t, unit, copies, committed) ==
    Cardinality(Failed(copies)) = 1
    => \A i \in 1..Len(copies) :
        LET batch == FetchWindow(unit, copies[i].offset)
        IN  \A k \in 1..Len(batch) :
                IF copies[i].ok
                THEN sink[t].rows[batch[k]] > 0 /\ Occurrences(committed, batch[k]) = 1
                ELSE Occurrences(committed, batch[k]) = 0

\* C1 (as stated): batch isolation. When exactly one window's COPY is rejected
\* in a sequential load or in a year chunk that ran to its commit, only that
\* window's rows are missing: every other window's rows are committed.
C1_BatchIsolation ==
    \A t \in tables :
        /\ (load[t].path = "seq" /\ load[t].ret = "True")
            => IsolatedBatches(t, AllRows(src[t].rows), load[t].copies, load[t].committed)
        /\ \A y \in DOMAIN chunk[t] :
            (chunk[t][y].st = "done" /\ chunk[t][y].out = "ok")
            => IsolatedBatches(t, YearRows(src[t].rows, y), chunk[t][y].copies,
                               chunk[t][y].committed)

\* the positions of the index statements in t's finalize statement list
IndexPositions(t) ==
    LET d == Descriptor[src[t].layout]
        stmts == FinalizeStmts(d.primary_keys, d.indexes)
    IN  {i \in 1..Len(stmts) : stmts[i].kind \in {"CREATE INDEX", "CREATE UNIQUE INDEX"}}

\* t was created by this run and finalized with exactly one index refused
OneIndexRefused(t) ==
    /\ pc[t] = "DONE" /\ fin[t].ran
    /\ Descriptor[src[t].layout].primary_keys # <<>>
    /\ Len(Descriptor[src[t].layout].indexes) = 2
    /\ Len(provret[t]) = 1 /\ ~provret[t][1].existed
    /\ Cardinality(fin[t].rejects) = 1 /\ fin[t].rejects \subseteq IndexPositions(t)

\* C2 (as stated): finalize fault isolation. For a table with a primary key
\* and two secondary indexes, when the creation of one index fails, the
\* primary key and the other index exist in the sink after finalize returns.
C2_FinalizeFaultIsolation ==
    \A t \in tables :
        OneIndexRefused(t)
        => LET d == Descriptor[src[t].layout]
               stmts == FinalizeStmts(d.primary_keys, d.indexes)
           IN  /\ sink[t].pk = LowerAll(d.primary_keys)
               /\ \A i \in IndexPositions(t) \ fin[t].rejects :
                    stmts[i].name \in {ix.name : ix \in sink[t].indexes}

\* a chunked load that returned with no fault of any kind in any chunk
CleanChunkedLoad(t) ==
    /\ load[t].path = "chunked" /\ load[t].ret = "True"
    /\ \A y \in DOMAIN chunk[t] :
        chunk[t][y].out = "ok" /\ Failed(chunk[t][y].copies) = {}

\* C3 (as stated): chunk completeness. For a year-chunked table with no batch
\* failure, the rows loaded over all chunks add up to the table's row count
\* taken before chunking: every source row, NULL chunking column or not, is
\* loaded by exactly one chunk.
C3_ChunkCompleteness ==
    \A t \in tables :
        CleanChunkedLoad(t)
        => /\ load[t].processed = load[t].total
           /\ \A i \in 1..Len(src[t].rows) :
                Cardinality({y \in DOMAIN chunk[t] :
                                Occurrences(chunk[t][y].committed, i) > 0}) = 1

\* the LOAD phase of t succeeded: migrate_table_data returned True
LoadSucceeded(t) == load[t].ret = "True"

\* C4 (as stated): exit code. The process exits 0 if and only if the LOAD
\* phase succeeded for every requested table, and 1 otherwise.
C4_ExitCode ==
    db.pc = "exit"
    => /\ db.code \in {0, 1}
       /\ db.code = 0 <=> \A t \in tables : LoadSucceeded(t)

\* C5 (as stated): idempotent provisioning, return value. For the same column
\* list, the create_table call that finds the table existing returns the same
\* primary-key column list as the call that created it.
C5_SameReturnValue ==
    \A t \in tables : \A i \in DOMAIN provret[t] : \A j \in DOMAIN provret[t] :
        (~provret[t][i].existed /\ ~provret[t][i].raised /\ provret[t][j].existed)
        => provret[t][j].ret = provret[t][i].ret

\* a step in which create_table runs on t and finds the sink table existing
ProvisionsExisting(t) == pc[t] = "provision" /\ pc'[t] # "provision" /\ sink[t].exists

\* C6: idempotent provisioning, effect. create_table on a sink table that
\* exists issues no statement and leaves the table's definition and rows as
\* they are; no step of the migration drops or truncates a sink schema or
\* table: no DROP or TRUNCATE is ever sent, an existing table stays, and it
\* never loses a row.
C6_NoEffectOnExisting ==
    /\ [][\A t \in TableNames :
            /\ ProvisionsExisting(t) => sink'[t] = sink[t] /\ ddl'[t] = ddl[t]
            /\ sink[t].exists => sink'[t].exists
            /\ \A i \in DOMAIN sink[t].rows : sink'[t].rows[i] >= sink[t].rows[i]]_vars
    /\ [](\A t \in TableNames : \A i \in 1..Len(ddl[t]) :
            ddl[t][i].stmt.kind \notin {"DROP TABLE", "TRUNCATE"})
    /\ [](\A i \in 1..Len(db.schema) : db.schema[i] # "DROP SCHEMA")

\* C6's case: create_table has run on a table that existed and held rows
C6_Witness ==
    \E t \in tables :
        /\ pc[t] = "load"
        /\ Len(provret[t]) = 1 /\ provret[t][1].existed
        /\ \E i \in DOMAIN sink[t].rows : sink[t].rows[i] > 0

\* C7: finalize never precedes load completion. No finalize statement has
\* been sent for a table unless its load has returned and, in the chunked
\* path, every year-chunk task of the table has finished.
C7_FinalizeAfterLoad ==
    \A t \in TableNames :
        FinalizeLog(t) # <<>>
        => /\ load[t].ret = "True"
           /\ \A y \in DOMAIN chunk[t] : chunk[t][y].st = "done"

\* C7's case: a chunked table whose finalize statements have been sent
C7_Witness ==
    \E t \in tables :
        load[t].path = "chunked" /\ Cardinality(DOMAIN chunk[t]) > 1 /\ FinalizeLog(t) # <<>>

\* the rank of a finalize statement in the fixed order
StepRank(kind) ==
    IF kind = "SET LOGGED" THEN 1 ELSE IF kind = "ADD PRIMARY KEY" THEN 2 ELSE 3

\* C8: finalize step order. Within one finalize, SET LOGGED is attempted
\* first, then ADD PRIMARY KEY (exactly when a primary key was discovered),
\* then each secondary index in introspection order; no index before the
\* primary-key step, no primary-key step before the logging step.
C8_FinalizeOrder ==
    \A t \in TableNames :
        LET log == FinalizeLog(t)
            d == Descriptor[src[t].layout]
            ixs == SelectSeq(log, LAMBDA e : StepRank(e.stmt.kind) = 3)
        IN  log # <<>>
            => /\ log[1].stmt.kind = "SET LOGGED"
               /\ \A i \in 1..Len(log) : \A j \in 1..Len(log) :
                    i < j => StepRank(log[i].stmt.kind) <= StepRank(log[j].stmt.kind)
               /\ Cardinality({i \in 1..Len(log) : log[i].stmt.kind = "SET LOGGED"}) = 1
               /\ Cardinality({i \in 1..Len(log) : log[i].stmt.kind = "ADD PRIMARY KEY"})
                    = (IF d.primary_keys # <<>> THEN 1 ELSE 0)
               /\ [i \in 1..Len(ixs) |-> ixs[i].stmt.name]
                    = [i \in 1..Len(d.indexes) |-> StrLower(d.indexes[i].name)]

\* C8's case: a finalize that sent the logging, key and both index statements
C8_Witness ==
    \E t \in tables :
        /\ Len(FinalizeLog(t)) = 4
        /\ Descriptor[src[t].layout].primary_keys # <<>>

\* C9: sibling-table isolation. When migrate_database has returned, every
\* requested table has reached DONE or FAILED, the tables counted successful
\* are exactly the DONE ones (a failed table is counted as failed, whatever
\* happened to the others), and the result is True only if none failed.
C9_SiblingIsolation ==
    db.pc = "returned"
    => /\ \A t \in tables : Terminal(t)
       /\ db.success_count = Cardinality({t \in tables : pc[t] = "DONE"})
       /\ db.ret <=> \A t \in tables : pc[t] = "DONE"

\* C9's case: one table failed and its sibling was migrated to DONE
C9_Witness ==
    /\ db.pc = "returned"
    /\ \E t \in tables : \E u \in tables :
        /\ pc[t] = "FAILED" /\ pc[u] = "DONE"
        /\ \E i \in DOMAIN sink[u].rows : sink[u].rows[i] > 0

\* the load of year chunk y of t failed
ChunkFailed(t, y) == chunk[t][y].out \in {"error", "raised"}

\* C10 (as stated): sibling-chunk isolation. Once a chunked load has returned,
\* every sibling of a failed year chunk has run to its end, and the failure is
\* recorded in the table's aggregate result.
C10_ChunkFailureRecorded ==
    \A t \in tables :
        (load[t].path = "chunked" /\ load[t].ret # "none"
            /\ \E y \in DOMAIN chunk[t] : ChunkFailed(t, y))
        => /\ \A z \in DOMAIN chunk[t] : chunk[t][z].st = "done"
           /\ load[t].ret = "False"

\* C11 (as stated): table success is independent of finalize. Whenever a
\* table's load returned success and migrate_table has returned, the table
\* is reported successful, whatever failed inside finalize or in acquiring
\* the finalize connection.
C11_SuccessIndependentOfFinalize ==
    \A t \in tables : (LoadSucceeded(t) /\ Terminal(t)) => TableResult(t)

\* the windows of one finished load unit: every fetch is of the next offset
\* 0, B, 2B, ... below total, every fetched window is submitted once, right
\* after its fetch, and a unit that ran to its commit has gone through every
\* window below total
WindowsOnceInOrder(total, fetched, copies, raised) ==
    /\ \A i \in 1..Len(fetched) : fetched[i] = (i - 1) * BATCH_SIZE /\ fetched[i] < total
    /\ [i \in 1..Len(copies) |-> copies[i].offset] = fetched
    /\ ~raised => SeqToSet(fetched) = Windows(total)

\* C12: no retry. In a sequential load and in every year chunk, each offset
\* window below the row total is fetched and submitted at most once, in
\* increasing offset order; after a rejected COPY the loader goes on with the
\* next window and never sends the rejected one again.
C12_NoRetry ==
    \A t \in tables :
        /\ load[t].path = "seq"
            => WindowsOnceInOrder(load[t].total, load[t].fetched, load[t].copies,
                                  load[t].ret = "False")
        /\ \A y \in DOMAIN chunk[t] :
            chunk[t][y].st = "done" /\ chunk[t][y].out # "raised"
            => WindowsOnceInOrder(chunk[t][y].total, chunk[t][y].fetched, chunk[t][y].copies,
                                  chunk[t][y].out = "error")

\* C12's case: a load whose first window was rejected and that went on to
\* submit a later window
C12_Witness ==
    \E t \in tables :
        /\ load[t].path = "seq" /\ load[t].ret = "True"
        /\ Len(load[t].copies) > 1 /\ ~load[t].copies[1].ok

\* the load of t found a source table with zero rows and returned
EmptyLoad(t) == load[t].path = "empty" /\ Len(src[t].rows) = 0

\* C13 (as stated): zero-row short-circuit. For a source table with zero rows
\* the load fetches no window and issues no COPY, and the table ends DONE,
\* reported successful.
C13_ZeroRowShortCircuit ==
    \A t \in tables :
        EmptyLoad(t)
        => /\ load[t].fetched = <<>> /\ load[t].copies = <<>>
           /\ load[t].ret = "True"
           /\ Terminal(t) => TableResult(t)

\* t has no primary-key column, its load went through without a fault, and
\* create_indexes_and_constraints has run on it
FinalizedWithoutKey(t) ==
    /\ Descriptor[src[t].layout].primary_keys = <<>>
    /\ LoadSucceeded(t) /\ Failed(load[t].copies) = {}
    /\ fin[t].ran

\* C14 (as stated): table without primary key. Such a table has all its rows
\* loaded and is reported successful; its finalize attempts no primary-key
\* statement and no index statement, and records that the constraints were
\* skipped (some printed line is about the primary-key step).
C14_NoPrimaryKey ==
    \A t \in tables :
        FinalizedWithoutKey(t)
        => /\ \A i \in 1..Len(src[t].rows) : sink[t].rows[i] > 0
           /\ TableResult(t)
           /\ \A i \in 1..Len(FinalizeLog(t)) :
                FinalizeLog(t)[i].stmt.kind
                    \notin {"ADD PRIMARY KEY", "CREATE INDEX", "CREATE UNIQUE INDEX"}
           /\ \E i \in 1..Len(FinalizeMessages(FinalizeLog(t))) :
                FinalizeMessages(FinalizeLog(t))[i].step = "primary key"

\* PHASE 1 has just created t's sink table (fast-load mode) and nothing has
\* touched it since
JustCreated(t) ==
    /\ pc[t] = "load"
    /\ Len(provret[t]) = 1 /\ ~provret[t][1].existed /\ ~provret[t][1].raised

\* C15 (as stated): fast-load provisioning. A table created by create_table
\* with skip_constraints=True and unlogged=True is UNLOGGED and its definition
\* carries no constraint at all: no primary key, no index, and no column
\* constraint.
C15_FastLoadNoConstraints ==
    \A t \in tables :
        JustCreated(t)
        => /\ sink[t].exists /\ sink[t].unlogged
           /\ sink[t].pk = <<>> /\ sink[t].indexes = {}
           /\ \A i \in 1..Len(sink[t].coldefs) : ~sink[t].coldefs[i].not_null

\* C16: no foreign keys by default. No foreign-key statement is ever sent to
\* the sink and no sink table ever holds a foreign key, although introspection
\* collects the source's foreign keys and hands them to finalize.
C16_NoForeignKeys ==
    \A t \in TableNames :
        /\ sink[t].fks = {}
        /\ \A i \in 1..Len(ddl[t]) : ddl[t][i].stmt.kind # "ADD FOREIGN KEY"

\* C16's case: a table whose introspection found a foreign key has been
\* finalized, every statement accepted
C16_Witness ==
    \E t \in tables :
        /\ Descriptor[src[t].layout].foreign_keys # <<>>
        /\ pc[t] = "DONE" /\ fin[t].ran /\ fin[t].rejects = {}
        /\ sink[t].pk # <<>>

---------------------------------------------------------------------------
\* ValueTranscoder: convert_value and the COPY text field built from its
\* result.  A Python value is [kind, n, data]: kind is its type (None, bool,
\* int, bytes, str), n the number of an int or bool (True is 1), data the
\* bytes of a bytes or the code points of a str.

\* the printable ASCII characters of codes 32..95 and of codes 97..126
AsciiLow == " !\"#$%&'()*+,-./0123456789:;<=>?@ABCDEFGHIJKLMNOPQRSTUVWXYZ[\\]^_"
AsciiHigh == "abcdefghijklmnopqrstuvwxyz{|}~"

\* ord(c)
AsciiOf(c) ==
    IF \E i \in 1..Len(AsciiLow) : CharAt(AsciiLow, i) = c
    THEN 31 + (CHOOSE i \in 1..Len(AsciiLow) : CharAt(AsciiLow, i) = c)
    ELSE 96 + (CHOOSE i \in 1..Len(AsciiHigh) : CharAt(AsciiHigh, i) = c)

\* the code points of a string literal
Chars(s) == [i \in 1..Len(s) |-> AsciiOf(CharAt(s, i))]

PyNone == [kind |-> "None", n |-> 0, data |-> <<>>]
PyBool(b) == [kind |-> "bool", n |-> IF b THEN 1 ELSE 0, data |-> <<>>]
PyInt(n) == [kind |-> "int", n |-> n, data |-> <<>>]
PyBytes(data) == [kind |-> "bytes", n |-> 0, data |-> data]
PyStr(data) == [kind |-> "str", n |-> 0, data |-> data]
\* a datetime.date or datetime.datetime; data is the text str() gives for it
PyDate(data) == [kind |-> "date", n |-> 0, data |-> data]

\* bool(value)
Truthy(v) ==
    IF v.kind = "None" THEN FALSE
    ELSE IF v.kind \in {"bool", "int"} THEN v.n # 0
    ELSE v.data # <<>>

\* isinstance(value, int): bool is a subclass of int
IsInt(v) == v.kind \in {"int", "bool"}

\* s.replace(old, new) for a one-character old
RECURSIVE Replace(_, _, _)
Replace(data, old, new) ==
    IF data = <<>> THEN <<>>
    ELSE (IF Head(data) = old THEN new ELSE <<Head(data)>>) \o Replace(Tail(data), old, new)

RECURSIVE Digits(_)
Digits(n) ==
    IF n < 10 THEN <<48 + n>> ELSE Digits(n \div 10) \o <<48 + (n % 10)>>

HexDigits == "0123456789abcdef"

\* two hex digits of one byte
Hex2(b) ==
    <<AsciiOf(CharAt(HexDigits, (b \div 16) + 1)), AsciiOf(CharAt(HexDigits, (b % 16) + 1))>>

\* bytes.hex()
RECURSIVE Hex(_)
Hex(data) == IF data = <<>> THEN <<>> ELSE Hex2(Head(data)) \o Hex(Tail(data))

\* repr of one byte inside a bytes literal quoted with quote
ByteRepr(b, quote) ==
    IF b = 92 THEN <<92, 92>>
    ELSE IF b = 9 THEN <<92, 116>>
    ELSE IF b = 10 THEN <<92, 110>>
    ELSE IF b = 13 THEN <<92, 114>>
    ELSE IF b = quote /\ quote = 39 THEN <<92, 39>>
    ELSE IF b >= 32 /\ b < 127 THEN <<b>>
    ELSE <<92, 120>> \o Hex2(b)

RECURSIVE BytesRepr(_, _)
BytesRepr(data, quote) ==
    IF data = <<>> THEN <<>>
    ELSE ByteRepr(Head(data), quote) \o BytesRepr(Tail(data), quote)

\* str(value)
StrOf(v) ==
    IF v.kind = "None" THEN Chars("None")
    ELSE IF v.kind = "bool" THEN (IF v.n = 1 THEN Chars("True") ELSE Chars("False"))
    ELSE IF v.kind = "int" THEN (IF v.n < 0 THEN <<45>> \o Digits(-v.n) ELSE Digits(v.n))
    ELSE IF v.kind \in {"str", "date"} THEN v.data
    ELSE LET quote == IF (\E i \in 1..Len(v.data) : v.data[i] = 39)
                         /\ ~(\E i \in 1..Len(v.data) : v.data[i] = 34)
                      THEN 34 ELSE 39
         IN  <<98, quote>> \o BytesRepr(v.data, quote) \o <<quote>>

\* s.startswith(prefix)
StartsWith(data, prefix) ==
    Len(data) >= Len(prefix) /\ SubSeq(data, 1, Len(prefix)) = prefix

\* a transcoder that passes every value through as it is
convert_value_unchanged(value, mysql_type, pg_type) == value

convert_value(value, mysql_type, pg_type) ==
    IF value.kind = "None" THEN PyNone
    ELSE IF StrContains(StrLower(mysql_type), "bit") /\ pg_type = "boolean"
    THEN IF value.kind = "bytes" THEN PyBool(value.data # <<0>>)
         ELSE IF IsInt(value) THEN PyBool(value.n # 0)
         ELSE PyBool(Truthy(value))
    ELSE IF StrContains(StrLower(mysql_type), "tinyint(1)") /\ pg_type = "boolean"
    THEN PyBool(Truthy(value))
    ELSE IF pg_type \in {"date", "timestamp", "timestamptz"}
            /\ StartsWith(StrOf(value), Chars("0000-00-00"))
    THEN PyNone
    ELSE IF value.kind = "str" /\ (\E i \in 1..Len(value.data) : value.data[i] = 0)
    THEN PyStr(Replace(value.data, 0, <<>>))
    ELSE IF value.kind = "bytes" /\ (\E i \in 1..Len(value.data) : value.data[i] = 0)
    THEN PyBytes(Replace(value.data, 0, <<>>))
    ELSE value

\* a field builder that leaves the backslash as it is
CopyFieldRawBackslash(converted_val) ==
    IF converted_val.kind = "None" THEN <<92, 78>>
    ELSE IF converted_val.kind = "bool"
    THEN (IF converted_val.n # 0 THEN Chars("t") ELSE Chars("f"))
    ELSE IF converted_val.kind = "bytes" THEN <<92, 92, 120>> \o Hex(converted_val.data)
    ELSE IF converted_val.kind = "str"
    THEN Replace(Replace(Replace(converted_val.data, 10, <<92, 110>>), 13, <<92, 114>>),
                 9, <<92, 116>>)
    ELSE StrOf(converted_val)

\* the COPY text field appended to converted_values for one converted value
CopyField(converted_val) ==
    IF converted_val.kind = "None" THEN <<92, 78>>
    ELSE IF converted_val.kind = "bool"
    THEN (IF converted_val.n # 0 THEN Chars("t") ELSE Chars("f"))
    ELSE IF converted_val.kind = "bytes" THEN <<92, 92, 120>> \o Hex(converted_val.data)
    ELSE IF converted_val.kind = "str"
    THEN Replace(Replace(Replace(Replace(converted_val.data, 92, <<92, 92>>),
                                 10, <<92, 110>>), 13, <<92, 114>>), 9, <<92, 116>>)
    ELSE StrOf(converted_val)

\* a field builder that writes NULL as an empty field
ChunkCopyFieldEmptyNull(converted_val) ==
    IF converted_val.kind = "None" THEN <<>> ELSE CopyField(converted_val)

\* the same in migrate_year_chunk, which has its own copy of the code
ChunkCopyField(converted_val) ==
    IF converted_val.kind = "None" THEN <<92, 78>>
    ELSE IF converted_val.kind = "bool"
    THEN (IF converted_val.n # 0 THEN Chars("t") ELSE Chars("f"))
    ELSE IF converted_val.kind = "bytes" THEN <<92, 92, 120>> \o Hex(converted_val.data)
    ELSE IF converted_val.kind = "str"
    THEN Replace(Replace(Replace(Replace(converted_val.data, 92, <<92, 92>>),
                                 10, <<92, 110>>), 13, <<92, 114>>), 9, <<92, 116>>)
    ELSE StrOf(converted_val)

\* a load that reads the catalogue's columns last to first
LoadColumnsReversed(layout) ==
    LET d == Describe(layout)
    IN  [i \in 1..Len(d) |->
            [name |-> d[Len(d) + 1 - i].Field, type |-> d[Len(d) + 1 - i].Type,
             pg_type |-> convert_mysql_type(d[Len(d) + 1 - i].Type)]]

\* `columns` as migrate_table_data builds it from its own DESCRIBE
LoadColumns(layout) ==
    LET d == Describe(layout)
    IN  [i \in 1..Len(d) |->
            [name |-> d[i].Field, type |-> d[i].Type,
             pg_type |-> convert_mysql_type(d[i].Type)]]

\* col_names = [col["name"].lower() for col in columns]
col_names(columns) == [i \in 1..Len(columns) |-> StrLower(columns[i].name)]

\* converted_values of one row in migrate_table_data; the value at `fault`
\* raises inside the try and the handler appends the NULL marker
ConvertedValues(columns, row, fault) ==
    [i \in 1..Len(row) |->
        IF i = fault THEN <<92, 78>>
        ELSE CopyField(convert_value(row[i], columns[i].type, columns[i].pg_type))]

\* the handler's print
Warnings(columns, fault) ==
    IF fault = 0 THEN <<>> ELSE <<"Warning: Error converting column " \o columns[fault].name>>

\* the same two in migrate_year_chunk, whose handler prints nothing
ChunkConvertedValues(columns, row, fault) ==
    [i \in 1..Len(row) |->
        IF i = fault THEN <<92, 78>>
        ELSE ChunkCopyField(convert_value(row[i], columns[i].type, columns[i].pg_type))]

ChunkWarnings(columns, fault) == <<>>

RECURSIVE Join(_, _)
Join(parts, sep) ==
    IF parts = <<>> THEN <<>>
    ELSE IF Len(parts) = 1 THEN parts[1]
    ELSE parts[1] \o <<sep>> \o Join(Tail(parts), sep)

\* csv_buffer.write('\t'.join(converted_values) + '\n')
WriteRecord(converted_values) == Join(converted_values, 9) \o <<10>>

---------------------------------------------------------------------------
\* The pure functions called on their own: one call per behaviour, its
\* arguments drawn at the start.

UpperCharOf(c) ==
    IF \E i \in 1..Len(LowerChars) : CharAt(LowerChars, i) = c
    THEN CharAt(UpperChars, CHOOSE i \in 1..Len(LowerChars) : CharAt(LowerChars, i) = c)
    ELSE c

RECURSIVE StrUpper(_)
StrUpper(s) ==
    IF Len(s) = 0 THEN "" ELSE UpperCharOf(CharAt(s, 1)) \o StrUpper(SubSeq(s, 2, Len(s)))

\* the keys of the static lookup table
TypeMapKeys == {TYPE_MAP[i][1] : i \in 1..Len(TYPE_MAP)}

\* the base type names of MySQL column types: the keys of TYPE_MAP that are
\* names, and numeric (a type the code tests for by name)
TypeBases ==
    {TYPE_MAP[i][1] : i \in {j \in 1..Len(TYPE_MAP) : StrIndex(TYPE_MAP[j][1], "(") = 0}}
    \cup {"numeric"}

\* what follows the base name in a column type: a length or precision, the
\* unsigned attribute
TypeParams == {"(1)", "(10)", "(10,2)", "(255)"}
TypeSuffixes == {""} \cup TypeParams \cup {" unsigned"} \cup {p \o " unsigned" : p \in TypeParams}

\* the column types convert_mysql_type is called with, as DESCRIBE spells
\* them and in upper case
TypeStrings ==
    LET spelt == {b \o x : b \in TypeBases, x \in TypeSuffixes} \cup TypeMapKeys
    IN  spelt \cup {StrUpper(ty) : ty \in spelt}

\* the spellings of the narrow flag column types
FlagTypes == {"bit(1)", "BIT(1)", "tinyint(1)", "TINYINT(1)", "tinyint(1) unsigned"}

\* what the source connection hands over for a flag column: NULL or an
\* integer; for a bit column also the one raw byte
FlagValues(ty) ==
    {PyNone} \cup {PyInt(n) : n \in {-1, 0, 1, 2, 127, 255}}
    \cup (IF StrContains(StrLower(ty), "bit") THEN {PyBytes(<<b>>) : b \in {0, 1, 255}} ELSE {})

\* the spellings of character, date-and-time and binary column types
TextTypes == {"varchar(255)", "VARCHAR(255)", "char(10)", "text", "longtext", "enum('a','b')"}
DateTypes == {"date", "DATE", "datetime", "datetime(6)", "timestamp", "TIMESTAMP"}
BinaryTypes == {"blob", "varbinary(16)"}

\* texts of a character column: empty, plain, the two characters \N, with
\* tab, newline, carriage return and backslash, with NUL, a zero date
TextValues ==
    {PyNone}
    \cup {PyStr(Chars(s)) : s \in {"", "a", "NULL", "\\N", "0000-00-00"}}
    \cup {PyStr(d) : d \in {<<97, 9, 98>>, <<10, 13>>, <<92>>, <<0>>, <<97, 0, 98>>}}

\* values of a date-and-time column: NULL, a date or datetime object, and
\* the value as text (zero dates have no date object)
DateValues ==
    {PyNone}
    \cup {PyDate(Chars(s)) : s \in {"2020-01-01", "2020-01-01 00:00:00"}}
    \cup {PyStr(Chars(s)) : s \in {"0000-00-00", "0000-00-00 00:00:00", "0000-00-00T00:00:00",
                                   "2020-01-01", "2020-00-00", "1000-00-00 00:00:00"}}

BinaryValues == {PyNone} \cup {PyBytes(d) : d \in {<<>>, <<0>>, <<222, 173>>, <<92, 78>>}}

ColumnTypes == FlagTypes \cup TextTypes \cup DateTypes \cup BinaryTypes

\* what the source connection hands over for a column of type ty
ColumnValues(ty) ==
    IF ty \in FlagTypes THEN FlagValues(ty)
    ELSE IF ty \in TextTypes THEN TextValues
    ELSE IF ty \in DateTypes THEN DateValues
    ELSE BinaryValues

\* the columns and values a field is built for
FieldInputs == UNION {{<<ty, v>> : v \in ColumnValues(ty)} : ty \in ColumnTypes}

\* what the source connection hands over for the columns of the catalogue's
\* tables: integers, date-and-time values, texts
RowValues(ty) ==
    IF ty \in {"bigint(20)", "int(10) unsigned"} THEN {PyNone, PyInt(7)}
    ELSE IF ty \in {"datetime", "timestamp"}
    THEN {PyNone, PyDate(Chars("2020-01-01 00:00:00")), PyStr(Chars("0000-00-00 00:00:00"))}
    ELSE TextValues

\* the rows SELECT * can return for a table: one value per column, in the
\* table's column order
RECURSIVE RowsUpTo(_, _)
RowsUpTo(d, k) ==
    IF k = 0 THEN {<<>>}
    ELSE {Append(r, v) : r \in RowsUpTo(d, k - 1), v \in RowValues(d[k].Type)}

SourceRows(layout) == RowsUpTo(Describe(layout), Len(Describe(layout)))

\* one fetched row of a table on either load path; fault is the position of
\* a value whose conversion raises (0: none does)
RecordInputs ==
    UNION {{[NoCall EXCEPT !.fn = "record", !.layout = l, !.row = r, !.path = p, !.fault = f] :
                r \in SourceRows(l), p \in {"seq", "chunk"}, f \in 0..Len(Describe(l))} :
           l \in Layouts}

\* the batch loop over a table of `total` rows, under every fault plan
LoopInputs ==
    UNION {{[NoCall EXCEPT !.fn = "load", !.total = total, !.plan = plan] :
                plan \in {p \in Plans(total) : Effective(p)}} : total \in 1..MaxTotal}

InitPure ==
    /\ tables = {}
    /\ src = [t \in TableNames |-> NoShape]
    /\ sink = [t \in TableNames |-> AbsentTable(0)]
    /\ InitIdle
    /\ call \in {[NoCall EXCEPT !.fn = "convert_mysql_type", !.column_type = ty] :
                    ty \in TypeStrings}
                \cup {[NoCall EXCEPT !.fn = "field", !.column_type = x[1], !.value = x[2],
                                     !.path = p] : x \in FieldInputs, p \in {"seq", "chunk"}}
                \cup LoopInputs \cup RecordInputs

\* pg_type = convert_mysql_type(column_type, column_name)
ConvertTypeCall ==
    /\ call.fn = "convert_mysql_type" /\ ~call.done
    /\ call' = [call EXCEPT !.done = TRUE,
                            !.out = convert_mysql_type(call.column_type),
                            !.by = ResolveType(call.column_type).by]
    /\ UNCHANGED <<bf, conns, tables, src, sink, ddl, pc, load, chunk, fin,
                   provret, db>>

\* one value of a fetched row: the column's pg_type as migrate_table_data
\* computes it, convert_value, and the field appended for the result
FieldCall ==
    /\ call.fn = "field" /\ ~call.done
    /\ LET pg_type == convert_mysql_type(call.column_type)
           converted_val == convert_value(call.value, call.column_type, pg_type)
       IN  call' = [call EXCEPT !.done = TRUE, !.out = pg_type,
                                !.field = IF call.path = "chunk"
                                          THEN ChunkCopyField(converted_val)
                                          ELSE CopyField(converted_val)]
    /\ UNCHANGED <<bf, conns, tables, src, sink, ddl, pc, load, chunk, fin,
                   provret, db>>

\* the `while offset < total` loop of a load into an empty sink table without
\* a unique key, up to its commit
LoadCall ==
    /\ call.fn = "load" /\ ~call.done
    /\ call' = [call EXCEPT !.done = TRUE,
                            !.loop = LoadLoop([i \in 1..call.total |-> i], call.total,
                                              AbsentTable(call.total), call.plan, LoopStart)]
    /\ UNCHANGED <<bf, conns, tables, src, sink, ddl, pc, load, chunk, fin,
                   provret, db>>

\* one pass of `for row in mysql_cur` in migrate_table_data or
\* migrate_year_chunk, after the load's own DESCRIBE
RecordCall ==
    /\ call.fn = "record" /\ ~call.done
    /\ LET columns == LoadColumns(call.layout)
           converted_values == IF call.path = "chunk"
                               THEN ChunkConvertedValues(columns, call.row, call.fault)
                               ELSE ConvertedValues(columns, call.row, call.fault)
       IN  call' = [call EXCEPT !.done = TRUE, !.columns = columns,
                                !.col_names = col_names(columns),
                                !.fields = converted_values,
                                !.record = WriteRecord(converted_values),
                                !.log = IF call.path = "chunk"
                                        THEN ChunkWarnings(columns, call.fault)
                                        ELSE Warnings(columns, call.fault),
                                !.batch_count = 1]
    /\ UNCHANGED <<bf, conns, tables, src, sink, ddl, pc, load, chunk, fin,
                   provret, db>>

NextPure == ConvertTypeCall \/ FieldCall \/ LoadCall \/ RecordCall

SpecPure == InitPure /\ [][NextPure]_vars

\* convert_mysql_type has returned for the column type ty
Converted(ty) == call.fn = "convert_mysql_type" /\ call.done /\ call.column_type = ty

\* the column types that denote an unsigned 32-bit integer: base type int
\* with the unsigned attribute, with or without a display width
UnsignedIntTypes ==
    LET spelt == {"int" \o x : x \in {" unsigned"} \cup {p \o " unsigned" : p \in TypeParams}}
    IN  spelt \cup {StrUpper(ty) : ty \in spelt}

\* C17 (as stated): unsigned widening. For every column type that denotes an
\* unsigned 32-bit integer, with or without a display width,
\* convert_mysql_type returns bigint.
C17_UnsignedWidening ==
    \A ty \in UnsignedIntTypes : Converted(ty) => call.out = "bigint"

\* the parameterized fixed-precision numeric and bounded character types,
\* each with the parameter it is spelt with
ParameterizedTypes ==
    LET spelt == {<<b \o p, p>> : b \in {"decimal", "numeric", "varchar", "char"},
                                  p \in TypeParams}
    IN  spelt \cup {<<StrUpper(x[1]), x[2]>> : x \in spelt}

\* C18 (as stated): parameter retention. For every parameterized decimal,
\* numeric, varchar and char type, the type string convert_mysql_type returns
\* contains the source's parenthesized parameter verbatim.
C18_ParameterRetention ==
    \A x \in ParameterizedTypes : Converted(x[1]) => StrContains(call.out, x[2])

\* C19: lookup-table coverage. For every key of TYPE_MAP, convert_mysql_type
\* applied to the key is resolved by a special case or by a table entry,
\* never by the generic-text default of the lookup.
C19_LookupCoverage ==
    \A ty \in TypeMapKeys :
        Converted(ty) => call.by \in {"special", "table"} /\ call.out # ""

\* C19's case: a key whose table entry is text has been resolved by the table
C19_Witness == Converted("longtext") /\ call.out = "text" /\ call.by = "table"

\* a field has been built for a value of a flag column
FlagField == call.fn = "field" /\ call.done /\ call.column_type \in FlagTypes

\* the raw value is zero: the integer 0 or the zero byte
IsZero(v) == (v.kind = "int" /\ v.n = 0) \/ (v.kind = "bytes" /\ v.data = <<0>>)

\* C20: narrow-flag fidelity. A bit(1) or tinyint(1) column is mapped to
\* boolean; a raw zero is emitted as the field f, every nonzero raw value as
\* the field t, and a non-NULL flag value gives no other field.
C20_FlagFidelity ==
    FlagField
    => /\ call.out = "boolean"
       /\ call.value.kind # "None"
            => call.field = (IF IsZero(call.value) THEN Chars("f") ELSE Chars("t"))

\* C20's case: the zero byte of a bit column has been emitted as f
C20_Witness ==
    FlagField /\ call.value = PyBytes(<<0>>) /\ call.field = <<102>>

\* a field has been built for a value of a column
FieldBuilt == call.fn = "field" /\ call.done

\* the two characters backslash, N
NullMarker == <<92, 78>>

\* C21: NULL marker. A source NULL in any column is emitted as the protocol
\* NULL marker and never as an empty field; an empty source string is
\* emitted as an empty field and never as the NULL marker.
C21_NullMarker ==
    FieldBuilt
    => /\ call.value = PyNone => (call.field = NullMarker /\ call.field # <<>>)
       /\ call.value = PyStr(<<>>) => (call.field = <<>> /\ call.field # NullMarker)

\* C21's case: a NULL of a date-and-time column has been emitted by the
\* year-chunk path
C21_Witness ==
    FieldBuilt /\ call.path = "chunk" /\ call.column_type = "datetime"
    /\ call.value = PyNone /\ call.field = NullMarker

\* the value is text beginning with the zero calendar date
ZeroDate(v) == v.kind = "str" /\ StartsWith(v.data, Chars("0000-00-00"))

\* C22: zero-date suppression. For a column mapped to date, timestamp or
\* timestamptz, a value that is the zero calendar date is emitted as the NULL
\* marker, never literally, in the sequential and in the year-chunk path.
C22_ZeroDate ==
    (FieldBuilt /\ call.out \in {"date", "timestamp", "timestamptz"} /\ ZeroDate(call.value))
    => call.field = NullMarker

\* C22's case: a zero datetime of a timestamp column, sequential path
C22_Witness ==
    FieldBuilt /\ call.path = "seq" /\ call.out = "timestamptz"
    /\ call.value = PyStr(Chars("0000-00-00 00:00:00")) /\ call.field = NullMarker

\* C23: year uniqueness. The year list of a chunked table has no repeated
\* year, and the chunk tasks submitted for the table are one per year of the
\* list: as many tasks as years, each year the year of exactly one task.
C23_YearUniqueness ==
    \A t \in tables :
        load[t].path = "chunked"
        => LET years == load[t].years
           IN  /\ \A i \in 1..Len(years) : \A j \in 1..Len(years) :
                    i # j => years[i] # years[j]
               /\ DOMAIN chunk[t] = SeqToSet(years)
               /\ Cardinality(DOMAIN chunk[t]) = Len(years)
               /\ years = get_year_ranges(src[t].rows)

\* C23's case: a table whose rows share a year and span three years, split
\* into three chunk tasks that have all finished
C23_Witness ==
    \E t \in tables :
        /\ load[t].path = "chunked" /\ load[t].ret = "True"
        /\ Len(load[t].years) = 3
        /\ \E i \in 1..Len(src[t].rows) : \E j \in 1..Len(src[t].rows) :
            i # j /\ src[t].rows[i] = src[t].rows[j] /\ src[t].rows[i] # 0

\* C24 (as stated): reported count equals committed count. For every load of
\* a table on the sequential path and of a year chunk that returned its
\* count, under any pattern of rejected COPYs, the processed counter the
\* loader reports equals the number of rows the load committed to the sink.
C24_ReportedEqualsCommitted ==
    \A t \in tables :
        /\ (load[t].path = "seq" /\ load[t].ret = "True")
            => load[t].processed = Len(load[t].committed)
        /\ \A y \in DOMAIN chunk[t] :
            (chunk[t][y].st = "done" /\ chunk[t][y].out = "ok")
            => chunk[t][y].processed = Len(chunk[t][y].committed)

\* the rows of t that its year chunks committed
ChunkCommitted(t) == {i \in 1..Len(src[t].rows) :
                        \E y \in DOMAIN chunk[t] : Occurrences(chunk[t][y].committed, i) > 0}

\* C25 (as stated): a failed load commits nothing. Whenever migrate_table_data
\* has returned False, no row fetched during that load is committed to the
\* sink, on the sequential path and on the year-chunked path.
C25_FailedLoadCommitsNothing ==
    \A t \in tables :
        load[t].ret = "False"
        => /\ load[t].committed = <<>>
           /\ ChunkCommitted(t) = {}

\* C26 (as stated): chunked success requires every chunk. A year-chunked
\* load is reported successful only if every one of its year chunks ran to
\* its end without an error.
C26_ChunkedSuccessNeedsAll ==
    \A t \in tables :
        (load[t].path = "chunked" /\ load[t].ret = "True")
        => \A y \in DOMAIN chunk[t] : chunk[t][y].st = "done" /\ chunk[t][y].out = "ok"

\* the LOAD of t is reported failed: migrate_table_data returned False, or
\* raised before its try
LoadFailed(t) == load[t].ret \in {"False", "raised"}

\* PHASE 1 of this run created t's sink table
ProvisionedHere(t) ==
    Len(provret[t]) = 1 /\ ~provret[t][1].existed /\ ~provret[t][1].raised

\* C27: no finalize after a failed load. When a table's LOAD is reported
\* failed, no finalize statement is sent for the table and the table is
\* reported failed; a table provisioned in this run stays unlogged, without
\* primary key and without index.
C27_NoFinalizeAfterFailedLoad ==
    \A t \in tables :
        LoadFailed(t)
        => /\ FinalizeLog(t) = <<>> /\ ~fin[t].ran
           /\ pc[t] = "FAILED"
           /\ ProvisionedHere(t)
                => sink[t].unlogged /\ sink[t].pk = <<>> /\ sink[t].indexes = {}

\* C27's case: a chunked load reported failed after a sibling chunk had
\* committed rows into a table this run created
C27_Witness ==
    \E t \in tables :
        /\ load[t].path = "chunked" /\ load[t].ret = "False"
        /\ ProvisionedHere(t) /\ pc[t] = "FAILED"
        /\ \E i \in DOMAIN sink[t].rows : sink[t].rows[i] > 0

\* the year-chunk tasks of t that are running
RunningChunks(t) == {y \in DOMAIN chunk[t] : chunk[t][y].st = "running"}

\* C28: connection exclusivity. No connection is ever used by a worker other
\* than the one that opened it, and once a year-chunk task of a table has
\* started, every connection the table's own task opened has been closed.
C28_ConnectionExclusivity ==
    /\ \A c \in conns : c.users = {c.by}
    /\ \A t \in tables : \A y \in DOMAIN chunk[t] :
        chunk[t][y].st # "queued"
        => \A c \in conns : c.by = Worker(t, 0) => c.st = "closed"

\* C28's case: two year-chunk tasks of one table run at once, each on its own
\* pair of connections, while the task of the other table holds its own pair
C28_Witness ==
    \E t \in tables : \E u \in tables \ {t} :
        /\ Cardinality(RunningChunks(t)) = 2
        /\ \A y \in RunningChunks(t) :
            Cardinality({c \in conns : c.by = Worker(t, y) /\ c.st = "open"}) = 2
        /\ Cardinality({c \in conns : c.by = Worker(u, 0) /\ c.st = "open"}) = 2

\* the open connections of one side
OpenConns(side) == {c \in conns : c.st = "open" /\ c.side = side}

\* C29 (as stated): pool bounds. At most `workers` migrate_table tasks run at
\* once, at most CHUNK_WORKERS year-chunk tasks of one table run at once, and
\* the number of connection pairs open at once never exceeds
\* workers x max(1, CHUNK_WORKERS): neither the source nor the sink has more
\* open connections than that.
C29_PoolBounds ==
    /\ Cardinality({t \in tables : Running(t)}) <= db.workers
    /\ \A t \in tables : Cardinality(RunningChunks(t)) <= CHUNK_WORKERS
    /\ \A side \in {"mysql", "pg"} :
        Cardinality(OpenConns(side)) <= db.workers * MaxOf({1, CHUNK_WORKERS})

\* C30 (as stated): connection release. Every connection opened by
\* migrate_table, migrate_table_data or migrate_year_chunk has been closed by
\* the time that function has returned, on every exit path.
C30_ConnectionRelease ==
    \A c \in conns : (c.phase # "SCHEMA" /\ Returned(c)) => c.st = "closed"

---------------------------------------------------------------------------
\* backfill.py: detect_schema_changes and process_table.

\* DESCRIBE rows the source table can have, in column order
SourceColumnPool ==
    << [Field |-> "ID", Type |-> "bigint(20)", Null |-> "NO", Key |-> "PRI"],
       [Field |-> "NAME", Type |-> "varchar(64)", Null |-> "YES", Key |-> ""],
       [Field |-> "NOTE", Type |-> "text", Null |-> "NO", Key |-> ""] >>

\* information_schema.columns rows the sink table can have besides the
\* metadata columns: (column_name, data_type, is_nullable)
SinkColumnPool ==
    << [column_name |-> "id", data_type |-> "bigint", is_nullable |-> "NO"],
       [column_name |-> "name", data_type |-> "character varying", is_nullable |-> "YES"],
       [column_name |-> "Legacy", data_type |-> "text", is_nullable |-> "YES"] >>

CDC_METADATA_COLUMNS ==
    {"__source_db", "__source_table", "__source_ts_ms", "__op", "__deleted", "owner_user_id"}

\* the metadata columns as the sink lists them
MetadataColumnPool ==
    << [column_name |-> "__source_db", data_type |-> "text", is_nullable |-> "YES"],
       [column_name |-> "__source_table", data_type |-> "text", is_nullable |-> "YES"],
       [column_name |-> "__source_ts_ms", data_type |-> "bigint", is_nullable |-> "YES"],
       [column_name |-> "__op", data_type |-> "text", is_nullable |-> "YES"],
       [column_name |-> "__deleted", data_type |-> "text", is_nullable |-> "YES"],
       [column_name |-> "owner_user_id", data_type |-> "bigint", is_nullable |-> "YES"] >>

\* the sub-sequences of pool that keep the positions in keep
SubSeqs(pool, keeps) == {SelectIdx(pool, keep, 1) : keep \in keeps}

\* the metadata columns a sink table carries: none, one of them, or all
MetadataChoices ==
    {{}} \cup {{k} : k \in 1..Len(MetadataColumnPool)} \cup {1..Len(MetadataColumnPool)}

\* dict d after d[key] = val: a sequence of [key, val], keys in first-insertion order
DictSet(d, key, val) ==
    IF \E i \in 1..Len(d) : d[i].key = key
    THEN [i \in 1..Len(d) |-> IF d[i].key = key THEN [key |-> key, val |-> val] ELSE d[i]]
    ELSE Append(d, [key |-> key, val |-> val])

HasKey(d, key) == \E i \in 1..Len(d) : d[i].key = key

DictGet(d, key) == d[CHOOSE i \in 1..Len(d) : d[i].key = key].val

\* get_mysql_schema: columns[col_name.lower()] = {...} for each DESCRIBE row;
\* backfill.py's convert_mysql_type and TYPE_MAP are those of migrate.py
RECURSIVE get_mysql_schema_from(_, _)
get_mysql_schema_from(rows, columns) ==
    IF rows = <<>> THEN columns
    ELSE get_mysql_schema_from(Tail(rows),
            DictSet(columns, StrLower(Head(rows).Field),
                    [name |-> Head(rows).Field, type |-> Head(rows).Type,
                     pg_type |-> convert_mysql_type(Head(rows).Type),
                     nullable |-> (Head(rows).Null = "YES"),
                     is_primary |-> (Head(rows).Key = "PRI")]))

get_mysql_schema(rows) == get_mysql_schema_from(rows, <<>>)

\* get_postgres_schema: columns[col_name.lower()] = {...} for each catalogue row
RECURSIVE get_postgres_schema_from(_, _)
get_postgres_schema_from(rows, columns) ==
    IF rows = <<>> THEN columns
    ELSE get_postgres_schema_from(Tail(rows),
            DictSet(columns, StrLower(Head(rows).column_name),
                    [name |-> Head(rows).column_name, type |-> Head(rows).data_type,
                     nullable |-> (Head(rows).is_nullable = "YES")]))

get_postgres_schema(rows) == get_postgres_schema_from(rows, <<>>)

\* the values of the entries of d at the positions in keep, in dict order
ValuesAt(d, keep) == SelectIdx([i \in 1..Len(d) |-> d[i].val], keep, 1)

\* a detector that lists every sink column the source does not have
detect_schema_changes_all_missing(mysql_schema, pg_schema) ==
    [new_columns |->
        ValuesAt(mysql_schema, {i \in 1..Len(mysql_schema) :
                                    ~HasKey(pg_schema, mysql_schema[i].key)}),
     modified_columns |-> <<>>,
     dropped_columns |->
        ValuesAt(pg_schema, {i \in 1..Len(pg_schema) : ~HasKey(mysql_schema, pg_schema[i].key)})]

detect_schema_changes(mysql_schema, pg_schema) ==
    [new_columns |->
        ValuesAt(mysql_schema, {i \in 1..Len(mysql_schema) :
                                    ~HasKey(pg_schema, mysql_schema[i].key)}),
     modified_columns |->
        SelectIdx([i \in 1..Len(mysql_schema) |->
                        [name |-> mysql_schema[i].key,
                         mysql_type |-> mysql_schema[i].val.pg_type,
                         pg_type |-> IF HasKey(pg_schema, mysql_schema[i].key)
                                     THEN DictGet(pg_schema, mysql_schema[i].key).type
                                     ELSE ""]],
                  {i \in 1..Len(mysql_schema) :
                        /\ HasKey(pg_schema, mysql_schema[i].key)
                        /\ BaseType(mysql_schema[i].val.pg_type)
                            # BaseType(DictGet(pg_schema, mysql_schema[i].key).type)}, 1),
     dropped_columns |->
        ValuesAt(pg_schema, {i \in 1..Len(pg_schema) :
                                /\ ~HasKey(mysql_schema, pg_schema[i].key)
                                /\ pg_schema[i].key \notin CDC_METADATA_COLUMNS})]

\* a run that applies the changes whatever --dry-run says
AfterReportApply(dry_run) == "add"

\* `if dry_run: return True`, after the report
AfterReport(dry_run) == IF dry_run THEN "done" ELSE "add"

\* process_table was called for a sink table, with or without --dry-run
InitBackfill ==
    /\ tables = {}
    /\ src = [t \in TableNames |-> NoShape]
    /\ sink = [t \in TableNames |-> AbsentTable(0)]
    /\ ddl = [t \in TableNames |-> <<>>]
    /\ pc = [t \in TableNames |-> "idle"]
    /\ load = [t \in TableNames |-> NoLoad]
    /\ chunk = [t \in TableNames |-> <<>>]
    /\ fin = [t \in TableNames |-> NoFin]
    /\ provret = [t \in TableNames |-> <<>>]
    /\ conns = {}
    /\ db = IdleDb
    /\ call = NoCall
    /\ \E dry_run \in BOOLEAN :
       \E source \in SubSeqs(SourceColumnPool, SUBSET (1..Len(SourceColumnPool))) :
       \E plain \in SubSeqs(SinkColumnPool, SUBSET (1..Len(SinkColumnPool))) :
       \E meta \in SubSeqs(MetadataColumnPool, MetadataChoices) :
            bf = [NoBackfill EXCEPT !.pc = "start", !.dry_run = dry_run, !.source = source,
                                    !.columns = plain \o meta,
                                    !.has_pk = (\E k \in 1..Len(plain) :
                                                    plain[k].column_name = "id")]

BfFrame == UNCHANGED <<tables, src, sink, ddl, pc, load, chunk, fin, provret, db, call, conns>>

\* process_table up to `Apply changes`: both schemas, the early returns, the
\* report, the dry-run return
Inspect ==
    /\ bf.pc = "start"
    /\ LET mysql_schema == get_mysql_schema(bf.source)
           pg_schema_cols == get_postgres_schema(bf.columns)
           changes == detect_schema_changes(mysql_schema, pg_schema_cols)
       IN  IF pg_schema_cols = <<>> \/ mysql_schema = <<>>
           THEN bf' = [bf EXCEPT !.pc = "done", !.ret = "False"]
           ELSE IF changes = NoChanges
           THEN bf' = [bf EXCEPT !.pc = "done", !.ret = "True"]
           ELSE bf' = [bf EXCEPT !.changes = changes, !.pc = AfterReport(bf.dry_run),
                                 !.ret = IF AfterReport(bf.dry_run) = "done"
                                         THEN "True" ELSE "none"]
    /\ BfFrame

\* `for col in changes['new_columns']`: alter_table_add_column, which the
\* sink may refuse; a refusal ends process_table with False
AddColumn ==
    /\ bf.pc = "add"
    /\ IF bf.i > Len(bf.changes.new_columns)
       THEN bf' = [bf EXCEPT !.pc = "drop", !.i = 1]
       ELSE LET col == bf.changes.new_columns[bf.i]
                stmt == [kind |-> "ADD COLUMN", column |-> StrLower(col.name)]
            IN  \E refused \in BOOLEAN :
                    IF refused
                    THEN bf' = [bf EXCEPT !.pc = "done", !.ret = "False",
                                          !.stmts = Append(@, stmt)]
                    ELSE bf' = [bf EXCEPT !.i = @ + 1, !.stmts = Append(@, stmt),
                                          !.columns = Append(@,
                                                [column_name |-> StrLower(col.name),
                                                 data_type |-> col.pg_type,
                                                 is_nullable |-> IF col.nullable
                                                                 THEN "YES" ELSE "NO"])]
    /\ BfFrame

\* `for col in changes['dropped_columns']`: alter_table_drop_column on the
\* lower-cased name; a failure is reported and the loop goes on
DropColumn ==
    /\ bf.pc = "drop"
    /\ IF bf.i > Len(bf.changes.dropped_columns)
       THEN bf' = [bf EXCEPT !.pc = "backfill", !.i = 1]
       ELSE LET col == bf.changes.dropped_columns[bf.i]
                stmt == [kind |-> "DROP COLUMN", column |-> StrLower(col.name)]
                there == {k \in 1..Len(bf.columns) :
                            bf.columns[k].column_name = StrLower(col.name)}
            IN  \E refused \in BOOLEAN :
                    bf' = [bf EXCEPT !.i = @ + 1, !.stmts = Append(@, stmt),
                                     !.columns = IF refused \/ there = {} THEN @
                                                 ELSE SelectIdx(@, 1..Len(@) \ there, 1)]
    /\ BfFrame

\* backfill_column for the new columns, which needs a primary key on the
\* sink table, and the return of process_table
Backfill ==
    /\ bf.pc = "backfill"
    /\ LET set_cols == [k \in 1..Len(bf.changes.new_columns) |->
                            StrLower(bf.changes.new_columns[k].name)]
       IN  IF bf.changes.new_columns # <<>> /\ bf.has_pk
           THEN bf' = [bf EXCEPT !.pc = "done", !.ret = "True",
                                 !.stmts = Append(@, [kind |-> "UPDATE", column |-> set_cols[1]]),
                                 !.updated = SeqToSet(set_cols)]
           ELSE bf' = [bf EXCEPT !.pc = "done", !.ret = "True"]
    /\ BfFrame

NextBackfill == Inspect \/ AddColumn \/ DropColumn \/ Backfill

SpecBackfill == InitBackfill /\ [][NextBackfill]_vars

\* ---------------------------------------------------------------------------
\* Loop coverage (migrate.py 699-775, 536-606)

Ceil(a, b) == (a + b - 1) \div b

\* the row positions of the window that starts at offset o of a total-row unit
WindowRows(total, o) == SeqToSet(FetchWindow([i \in 1..total |-> i], o))

LoopReturned == call.fn = "load" /\ call.done /\ ~call.loop.raised

\* C31: load loop termination and coverage. For a row total T >= 1 the fetch
\* loop ends after exactly ceil(T / BATCH_SIZE) windows, the windows
\* [0,B), [B,2B), ... partition the row positions 1..T (every position lies in
\* exactly one fetched window), and when no batch fails every source row is
\* submitted and committed exactly once.
C31_LoopCoverage ==
    LoopReturned =>
        LET T == call.total
            lp == call.loop
        IN  /\ Len(lp.fetched) = Ceil(T, BATCH_SIZE)
            /\ \A pos \in 1..T :
                    Cardinality({i \in 1..Len(lp.fetched) :
                                    pos \in WindowRows(T, lp.fetched[i])}) = 1
            /\ \A i \in 1..Len(lp.fetched) : WindowRows(T, lp.fetched[i]) \subseteq 1..T
            /\ call.plan = NoPlan =>
                    /\ lp.processed = T
                    /\ \A pos \in 1..T : Occurrences(lp.committed, pos) = 1
                    /\ \A i \in 1..Len(lp.copies) : lp.copies[i].ok

\* a loop over a total that is not a multiple of the batch size, in three
\* windows, has returned with no failed batch
C31_Witness ==
    /\ LoopReturned /\ call.plan = NoPlan
    /\ call.total % BATCH_SIZE # 0 /\ Len(call.loop.fetched) = 3

\* ---------------------------------------------------------------------------
\* Re-run (migrate.py 303-318, 794-832)

\* this run's create_table found t's sink table, left by an earlier run with
\* the source rows in it
RerunOf(t) == Len(provret[t]) >= 1 /\ provret[t][1].existed

\* C32 (as stated): re-run safety. Running migrate_table for a table whose
\* sink table already exists and already holds the rows of an earlier run
\* adds no row to the sink: each source row is in the sink at most once.
C32_RerunAddsNoRows ==
    \A t \in tables :
        RerunOf(t) => \A i \in DOMAIN sink[t].rows : sink[t].rows[i] <= 1

\* ---------------------------------------------------------------------------
\* Chunking decision (migrate.py 650-693)

\* the three conditions, read off the source table itself
LargeTable(t) == Len(src[t].rows) >= LARGE_TABLE_THRESHOLD
HasTemporalColumn(t) == Descriptor[src[t].layout].date_column # ""
SeveralYears(t) == Cardinality(NonNullYears(src[t].rows)) > 1

\* C33: chunking decision. migrate_table_data fans out into year chunks only
\* if the row count is at or above LARGE_TABLE_THRESHOLD, a temporal column
\* was found and more than one year is present; in every other case the rows
\* go through the single sequential load, which reads every window of the
\* whole table, and no chunk task exists.
C33_ChunkingDecision ==
    \A t \in tables :
        /\ load[t].path = "chunked"
            => LargeTable(t) /\ HasTemporalColumn(t) /\ SeveralYears(t)
        /\ load[t].path = "seq"
            => /\ ~(LargeTable(t) /\ HasTemporalColumn(t) /\ SeveralYears(t))
               /\ load[t].total = Len(src[t].rows)
               /\ load[t].ret = "True" => SeqToSet(load[t].fetched) = Windows(Len(src[t].rows))
        /\ DOMAIN chunk[t] # {} => load[t].path = "chunked"

\* a table at the threshold with a temporal column whose rows all lie in one
\* year was loaded sequentially
C33_Witness ==
    \E t \in tables :
        /\ LargeTable(t) /\ HasTemporalColumn(t)
        /\ Cardinality(NonNullYears(src[t].rows)) = 1
        /\ load[t].path = "seq" /\ load[t].ret = "True"

\* ---------------------------------------------------------------------------
\* Chunk years (migrate.py 471-496, 521-527)

\* the distinct calendar years that occur in t's chunking column
YearsPresent(t) == NonNullYears(src[t].rows)

\* C34 (as stated): chunks only for years present. The chunk planner emits a
\* chunk exactly for the distinct years that occur in the chunking column, so
\* every emitted chunk's year has at least one source row.
C34_ChunksOnlyForYearsPresent ==
    \A t \in tables :
        load[t].path = "chunked" => DOMAIN chunk[t] = YearsPresent(t)

\* ---------------------------------------------------------------------------
\* Records (migrate.py 630-639, 693, 713-738, 553-574)

\* a row has been written to the batch buffer
RecordBuilt == call.fn = "record" /\ call.done

\* the field either copy of the field code appends for one converted value
FieldOn(path, converted_val) ==
    IF path = "chunk" THEN ChunkCopyField(converted_val) ELSE CopyField(converted_val)

\* C35: column-order consistency. The columns create_table defines from the
\* provision phase's introspection, the column descriptors the load transcodes
\* with and the COPY column-name list are the same sequence in the same order,
\* and the k-th field of an emitted record is the transcoding of the row's
\* k-th value under the k-th created column.
C35_ColumnOrder ==
    (RecordBuilt /\ call.fault = 0) =>
        LET schema == get_table_schema(call.layout)
            created == ColDefs(schema)
        IN  /\ call.col_names = [k \in 1..Len(created) |-> created[k].name]
            /\ Len(call.columns) = Len(schema)
            /\ \A k \in 1..Len(schema) :
                /\ call.columns[k].name = schema[k].name
                /\ call.columns[k].type = schema[k].type
                /\ call.columns[k].pg_type = created[k].pg_type
            /\ Len(call.fields) = Len(created)
            /\ \A k \in 1..Len(created) :
                call.fields[k] = FieldOn(call.path, convert_value(call.row[k], schema[k].type,
                                                                  created[k].pg_type))

\* a row of the four-column table, every value present and no two fields
\* alike, has been written
C35_Witness ==
    /\ RecordBuilt /\ call.fault = 0 /\ call.layout = "deal"
    /\ \A k \in 1..Len(call.row) : call.row[k].kind # "None"
    /\ \A j \in 1..Len(call.fields) : \A k \in 1..Len(call.fields) :
        j # k => call.fields[j] # call.fields[k]

\* C36 (as stated): per-value fault isolation. When converting one value of a
\* row fails, on the sequential and on the year-chunk path alike, that value
\* is emitted as the NULL marker, the failure is logged, every other field is
\* emitted as without the failure, and the row is written to its batch.
C36_PerValueFaultIsolation ==
    (RecordBuilt /\ call.fault > 0) =>
        /\ call.fields[call.fault] = NullMarker
        /\ Len(call.log) = 1
        /\ \A k \in 1..Len(call.row) :
            k # call.fault
            => call.fields[k] = FieldOn(call.path,
                                        convert_value(call.row[k], call.columns[k].type,
                                                      call.columns[k].pg_type))
        /\ call.batch_count = 1
        /\ call.record = WriteRecord(call.fields)

\* the number of times code point c occurs in data
CountOf(data, c) == Cardinality({i \in 1..Len(data) : data[i] = c})

\* data cut at every occurrence of sep
RECURSIVE SplitOn(_, _)
SplitOn(data, sep) ==
    IF \A i \in 1..Len(data) : data[i] # sep THEN <<data>>
    ELSE LET i == CHOOSE j \in 1..Len(data) :
                    data[j] = sep /\ \A k \in 1..(j - 1) : data[k] # sep
         IN  <<SubSeq(data, 1, i - 1)>> \o SplitOn(SubSeq(data, i + 1, Len(data)), sep)

\* a field as COPY ... FORMAT TEXT reads it: backslash sequences resolved
RECURSIVE CopyRead(_)
CopyRead(field) ==
    IF field = <<>> THEN <<>>
    ELSE IF field[1] = 92 /\ Len(field) >= 2
    THEN (IF field[2] = 110 THEN <<10>>
          ELSE IF field[2] = 114 THEN <<13>>
          ELSE IF field[2] = 116 THEN <<9>>
          ELSE <<field[2]>>) \o CopyRead(SubSeq(field, 3, Len(field)))
    ELSE <<field[1]>> \o CopyRead(Tail(field))

\* position k of the row holds a text value of a character column
TextAt(k) ==
    /\ call.row[k].kind = "str"
    /\ call.columns[k].pg_type \notin {"date", "timestamp", "timestamptz", "boolean"}

\* C37: record well-formedness. For a row whose text values may contain
\* backslash, tab, newline, carriage return and NUL, the emitted record ends
\* in its only newline and holds exactly one tab-separated field per column;
\* no text field contains a raw tab, newline, carriage return or NUL, every
\* backslash of the text is emitted doubled, and the sink reads the field back
\* as the text without its NULs, never as NULL.
C37_RecordWellFormed ==
    (RecordBuilt /\ call.fault = 0) =>
        LET rec == call.record
            parts == SplitOn(SubSeq(rec, 1, Len(rec) - 1), 9)
        IN  /\ rec[Len(rec)] = 10 /\ CountOf(rec, 10) = 1
            /\ Len(parts) = Len(call.columns)
            /\ \A k \in 1..Len(call.row) :
                TextAt(k) =>
                    LET text == call.row[k].data
                    IN  /\ k <= Len(parts)
                        /\ \A c \in {9, 10, 13, 0} : CountOf(parts[k], c) = 0
                        /\ CountOf(parts[k], 92)
                            = 2 * CountOf(text, 92) + CountOf(text, 9) + CountOf(text, 10)
                              + CountOf(text, 13)
                        /\ parts[k] # NullMarker
                        /\ CopyRead(parts[k]) = SelectIdx(text, {i \in 1..Len(text) : text[i] # 0}, 1)

\* a row whose text is the two characters backslash-N has been written, and
\* one whose text holds a tab
C37_Witness ==
    /\ RecordBuilt /\ call.fault = 0 /\ call.layout = "deal"
    /\ call.row[3] \in {PyStr(<<92, 78>>), PyStr(<<97, 9, 98>>)}
    /\ call.row[2].kind = "date"

\* ---------------------------------------------------------------------------
\* Backfill (backfill.py 204-241, 368-477)

\* the kinds of statement process_table has sent to the sink
SentKinds == {bf.stmts[k].kind : k \in 1..Len(bf.stmts)}

\* C38: backfill dry run. With --dry-run, process_table sends no ALTER TABLE
\* and no UPDATE to the sink on any path: no step changes the sink table's
\* columns or data, whatever schema differences were detected.
C38_DryRunNoEffect ==
    /\ [](bf.dry_run => bf.stmts = <<>> /\ bf.updated = {})
    /\ [][bf.dry_run => /\ bf'.columns = bf.columns
                        /\ bf'.updated = bf.updated
                        /\ bf'.stmts = bf.stmts]_vars

\* a dry run has returned True after detecting a column to add and a column
\* to drop
C38_Witness ==
    /\ bf.dry_run /\ bf.pc = "done" /\ bf.ret = "True"
    /\ bf.changes.new_columns # <<>> /\ bf.changes.dropped_columns # <<>>

\* the CDC metadata columns
CdcColumns ==
    {"__source_db", "__source_table", "__source_ts_ms", "__op", "__deleted", "owner_user_id"}

HasColumn(columns, c) == \E k \in 1..Len(columns) : columns[k].column_name = c

\* C39: backfill keeps CDC metadata. For every pair of source and sink
\* schemas, detect_schema_changes lists no CDC metadata column as dropped, so
\* process_table sends no DROP COLUMN for one and a metadata column of the
\* sink table stays in it.
C39_KeepsCdcMetadata ==
    /\ [](/\ \A k \in 1..Len(bf.changes.dropped_columns) :
                StrLower(bf.changes.dropped_columns[k].name) \notin CdcColumns
          /\ \A k \in 1..Len(bf.stmts) :
                bf.stmts[k].kind = "DROP COLUMN" => bf.stmts[k].column \notin CdcColumns)
    /\ [][\A c \in CdcColumns : HasColumn(bf.columns, c) => HasColumn(bf'.columns, c)]_vars

\* an applied run has dropped a sink column the source no longer has, from a
\* sink table that carries all six metadata columns
C39_Witness ==
    /\ ~bf.dry_run /\ bf.pc = "done" /\ bf.ret = "True"
    /\ "DROP COLUMN" \in SentKinds /\ ~HasColumn(bf.columns, "name")
    /\ \A c \in CdcColumns : HasColumn(bf.columns, c)

====
